---- MODULE Spec2Model ----
(***************************************************************************)
(* A model of the prediction tracker: the favorites context and its hosted *)
(* store (contexts/FavoritesContext.tsx), the error banner / overlay       *)
(* selection (App.tsx), the expiring cache over localStorage               *)
(* (utils/caching, kept in services/geminiService.ts) and the AI fetch     *)
(* operations that use it.                                                 *)
(***************************************************************************)
EXTENDS Integers, Sequences, FiniteSets, TLC

(***************************************************************************)
(* Bounds of the model.                                                    *)
(***************************************************************************)
MaxInFlight == 1
MaxInFlightTracked == 2
MaxInFlightStrategies == 2
MaxOutcomeCalls == 2
MaxStrategies == 1
MaxStake == 2
NumKeys == 41
MaxTime == 900002
MaxEvictTime == 2
MaxFragments == 3
MaxRetriesArg == 4
MaxUuids == 4
MaxLoads == 2
MaxSavedStates == 2
MaxExecutes == 3
MaxScoreCalls == 3
MaxKeyFetches == 3
ElapsedStep == 10000
MaxElapsed == 50000
MaxSessionClock == 4
MaxDelayArg == 2
MaxAccessCount == 2

(***************************************************************************)
(* JavaScript values that the code distinguishes.                          *)
(***************************************************************************)
JSNull == [tag |-> "null"]
JSUndefined == [tag |-> "undefined"]
JSStr(s) == [tag |-> "string", val |-> s]

\* v?.name : optional chaining on null/undefined gives undefined; a string
\* primitive has no own property of these names; an object gives its field.
OptProp(v, name) ==
  IF v.tag = "object" /\ name \in DOMAIN v.fields THEN v.fields[name]
  ELSE JSUndefined

(***************************************************************************)
(* Text.  A message is a sequence of one-character strings so that         *)
(* toLowerCase and includes are computed, not assumed.                     *)
(***************************************************************************)
UpperCase ==
  <<"A", "B", "C", "D", "E", "F", "G", "H", "I", "J", "K", "L", "M",
    "N", "O", "P", "Q", "R", "S", "T", "U", "V", "W", "X", "Y", "Z">>
LowerCase ==
  <<"a", "b", "c", "d", "e", "f", "g", "h", "i", "j", "k", "l", "m",
    "n", "o", "p", "q", "r", "s", "t", "u", "v", "w", "x", "y", "z">>
UpperToLower ==
  [c \in {UpperCase[i] : i \in 1..Len(UpperCase)} |->
     LowerCase[CHOOSE i \in 1..Len(UpperCase) : UpperCase[i] = c]]

toLowerCase(s) ==
  [i \in 1..Len(s) |-> IF s[i] \in DOMAIN UpperToLower THEN UpperToLower[s[i]] ELSE s[i]]

includes(s, needle) ==
  \E i \in 1..(Len(s) - Len(needle) + 1) : SubSeq(s, i, i + Len(needle) - 1) = needle

NeedleApiKey == <<"a", "p", "i", " ", "k", "e", "y">>
NeedleRelation == <<"r", "e", "l", "a", "t", "i", "o", "n">>
NeedleDoesNotExist == <<"d", "o", "e", "s", " ", "n", "o", "t", " ", "e", "x", "i", "s", "t">>

\* (the source quotes config.ts in backquotes, which a TLA+ string cannot hold)
AUTH_MESSAGE ==
  "Authentication with the database failed. Please ensure the Supabase API key in config.ts is correct."
TABLES_MISSING == "DATABASE_TABLES_MISSING"
GenericMessage(context) ==
  "A database error occurred while " \o context \o ". Please check your connection and try again."

\* An error object of the store client: message may be missing.
ErrObj(msg) == [hasMessage |-> TRUE, message |-> msg]
ErrNoMessage == [hasMessage |-> FALSE, message |-> <<>>]

\* Mutant of handleSupabaseError: the message is matched as it is written.
handleSupabaseErrorCaseSensitive(err, context) ==
  LET errorMessage == IF err.hasMessage THEN err.message ELSE <<>>
  IN  IF includes(errorMessage, NeedleApiKey) THEN AUTH_MESSAGE
      ELSE IF includes(errorMessage, NeedleRelation) /\ includes(errorMessage, NeedleDoesNotExist)
           THEN TABLES_MISSING
           ELSE GenericMessage(context)

\* The string handleSupabaseError passes to setError.
handleSupabaseError(err, context) ==
  LET errorMessage == toLowerCase(IF err.hasMessage THEN err.message ELSE <<>>)
  IN  IF includes(errorMessage, NeedleApiKey) THEN AUTH_MESSAGE
      ELSE IF includes(errorMessage, NeedleRelation) /\ includes(errorMessage, NeedleDoesNotExist)
           THEN TABLES_MISSING
           ELSE GenericMessage(context)

\* What AppContent renders for a given context error value.
AppContent(err) ==
  IF OptProp(err, "type") = JSStr(TABLES_MISSING) \/ OptProp(err, "message") = JSStr(TABLES_MISSING)
  THEN [view |-> "DatabaseSetupNeededOverlay", banner |-> FALSE]
  ELSE [view |-> "Layout", banner |-> err # JSNull]


(***************************************************************************)
(* The favorites context and the hosted store.                             *)
(***************************************************************************)
VARIABLES
  trackedPredictions,   \* local state: sequence of FavoritePrediction
  trackedAccumulators,  \* local state: sequence of FavoriteAccumulator
  aiStrategies,         \* local state: sequence of AIStrategy
  error,                \* local state: JSNull or JSStr(message)
  dbPredictions,        \* store table tracked_predictions, keyed by prediction_id
  dbAccumulators,       \* store table tracked_accumulators, keyed by accumulator_id
  dbStrategies,         \* store table ai_strategies, keyed by id
  nextStrategyId,       \* the id the store gives to the next inserted strategy
  requests,             \* store calls awaiting the store or their response
  outcomeLog,           \* per strategy: outcome calls whose store update succeeded
  lastEvent             \* when the last step handled a response: its operation,
                        \* whether it succeeded, whether an add found its id tracked

favVars == <<trackedPredictions, trackedAccumulators, aiStrategies, error,
             dbPredictions, dbAccumulators, dbStrategies, nextStrategyId,
             requests, outcomeLog, lastEvent>>

\* The items a page may hand to the context (MatchPrediction, AccumulatorTip).
Predictions == {[id |-> "p1", matchDate |-> 2], [id |-> "p2", matchDate |-> 1]}
Accumulators == {[id |-> "a1", games |-> <<1, 3>>], [id |-> "a2", games |-> <<2>>],
                 [id |-> "a3", games |-> <<>>]}
Stakes == 1..MaxStake
StrategyIds == 1..MaxStrategies
\* Dashboard: pnl is stake * odds - stake for 'Won' and -stake for 'Lost'
OutcomeArgs == {[outcome |-> "Won", pnl |-> 2], [outcome |-> "Lost", pnl |-> -1]}

\* Errors the store client may return.
StoreErrors ==
  { ErrObj(<<"I", "n", "v", "a", "l", "i", "d", " ", "A", "P", "I", " ", "k", "e", "y">>),
    ErrObj(<<"r", "e", "l", "a", "t", "i", "o", "n", " ", "x", " ",
             "d", "o", "e", "s", " ", "n", "o", "t", " ", "e", "x", "i", "s", "t">>),
    ErrNoMessage }
NoRowsError == ErrObj(<<"n", "o", " ", "r", "o", "w", "s">>)

NoReq == [op |-> "none"]
NoEvent == [op |-> "none"]
Slots == DOMAIN requests
FreeSlots == {i \in Slots : requests[i] = NoReq}
Quiescent == \A i \in Slots : requests[i] = NoReq

\* gamesA.reduce((max, g) => g.matchDate > max ? g.matchDate : max, '1970-01-01')
RECURSIVE LastGameDate(_)
LastGameDate(games) ==
  IF games = <<>> THEN 0
  ELSE LET max == LastGameDate(SubSeq(games, 1, Len(games) - 1))
           g == games[Len(games)]
       IN  IF g > max THEN g ELSE max

PredictionTime(p) == p.matchDate
AccumulatorTime(a) == LastGameDate(a.games)

\* Array.prototype.sort with comparator a - b on the given time: stable.
RECURSIVE InsertByTime(_, _, _)
InsertByTime(sorted, x, isAcc) ==
  LET t(e) == IF isAcc THEN AccumulatorTime(e) ELSE PredictionTime(e)
  IN  IF sorted = <<>> THEN <<x>>
      ELSE IF t(sorted[Len(sorted)]) <= t(x) THEN Append(sorted, x)
      ELSE Append(InsertByTime(SubSeq(sorted, 1, Len(sorted) - 1), x, isAcc), sorted[Len(sorted)])

RECURSIVE SortByTime(_, _)
SortByTime(seq, isAcc) ==
  IF seq = <<>> THEN <<>>
  ELSE InsertByTime(SortByTime(SubSeq(seq, 1, Len(seq) - 1), isAcc), seq[Len(seq)], isAcc)

FilterOutId(seq, id) == SelectSeq(seq, LAMBDA e : e.id # id)
IdsOf(seq) == {seq[i].id : i \in 1..Len(seq)}

\* Mutant of UpsertLocal: the new favorite is appended without the filter.
UpsertLocalNoFilter(prev, newFavorite, isAcc) ==
  SortByTime(Append(prev, newFavorite), isAcc)

\* setTrackedPredictions(prev => [...prev.filter(p => p.id !== id), newFavorite].sort(...))
UpsertLocal(prev, newFavorite, isAcc) ==
  SortByTime(Append(FilterOutId(prev, newFavorite.id), newFavorite), isAcc)

\* update(updates): the row with the given fields overwritten
MergeRow(row, updates) ==
  [f \in DOMAIN row |-> IF f \in DOMAIN updates THEN updates[f] ELSE row[f]]

\* A store table: a function from the key of the upsert to the row.
EmptyTable == [x \in {} |-> 0]
Put(table, key, row) == [x \in DOMAIN table \cup {key} |-> IF x = key THEN row ELSE table[x]]
Del(table, key) == [x \in DOMAIN table \ {key} |-> table[x]]

InitContext(maxInFlight) ==
  /\ trackedPredictions = <<>>
  /\ trackedAccumulators = <<>>
  /\ aiStrategies = <<>>
  /\ error = JSNull
  /\ dbPredictions = EmptyTable
  /\ dbAccumulators = EmptyTable
  /\ dbStrategies = EmptyTable
  /\ nextStrategyId = 1
  /\ requests = [i \in 1..maxInFlight |-> NoReq]
  /\ outcomeLog = [s \in StrategyIds |-> [won |-> 0, lost |-> 0, pnl |-> 0]]
  /\ lastEvent = NoEvent

\* The part of every context operation before its await: clearError() and the
\* store call being sent.
Send(op, arg, context) ==
  /\ FreeSlots # {}
  /\ LET i == CHOOSE j \in FreeSlots : \A k \in FreeSlots : j <= k
     IN  requests' = [requests EXCEPT ![i] =
                        [op |-> op, arg |-> arg, context |-> context, phase |-> "sent"]]
  /\ error' = JSNull
  /\ lastEvent' = NoEvent
  /\ UNCHANGED <<trackedPredictions, trackedAccumulators, aiStrategies, dbPredictions,
                 dbAccumulators, dbStrategies, nextStrategyId, outcomeLog>>

addPrediction(prediction, virtualStake) ==
  Send("addPrediction",
       [item |-> [id |-> prediction.id, matchDate |-> prediction.matchDate,
                  virtualStake |-> virtualStake]],
       "tracking the prediction")

removePrediction(predictionId) ==
  Send("removePrediction", [id |-> predictionId], "untracking the prediction")

\* the id of a saved strategy as a page passes it on (savedStrategy.id)
StrategyRef(id) == [tag |-> "string", id |-> id]

\* newFavorite is { ...accumulator, virtualStake }; strategyId goes into the
\* stored row only
addAccumulator(accumulator, virtualStake, strategyId) ==
  Send("addAccumulator",
       [item |-> [id |-> accumulator.id, games |-> accumulator.games,
                  virtualStake |-> virtualStake],
        strategyId |-> strategyId],
       "tracking the accumulator")

removeAccumulator(accumulatorId) ==
  Send("removeAccumulator", [id |-> accumulatorId], "untracking the accumulator")

saveAIStrategy ==
  /\ nextStrategyId + Cardinality({i \in Slots : requests[i] # NoReq
                                     /\ requests[i].op = "saveAIStrategy"
                                     /\ requests[i].phase = "sent"}) <= MaxStrategies
  /\ Send("saveAIStrategy",
          [row |-> [outcome |-> "Pending", pnl |-> 0, wins |-> 0, losses |-> 0,
                    is_archived |-> FALSE]],
          "saving AI strategy")

deleteAIStrategy(strategyId) ==
  Send("deleteAIStrategy", [id |-> strategyId], "deleting AI strategy")

\* outcomeCall records whether updateAIStrategyOutcome made the call, and with
\* which arguments (used by outcomeLog only).
NoOutcomeCall == [is |-> FALSE]
updateAIStrategy(strategyId, updates, outcomeCall) ==
  Send("updateAIStrategy",
       [id |-> strategyId, updates |-> updates, outcomeCall |-> outcomeCall],
       "updating AI strategy")

\* StrategyCard.handleToggleArchive: onUpdate(strategy.id, {is_archived: !strategy.is_archived})
handleToggleArchive(k) ==
  /\ k \in 1..Len(aiStrategies)
  /\ updateAIStrategy(aiStrategies[k].id, [is_archived |-> ~aiStrategies[k].is_archived],
                      NoOutcomeCall)

RECURSIVE LoggedCalls(_)
LoggedCalls(S) ==
  IF S = {} THEN 0
  ELSE LET s == CHOOSE x \in S : TRUE
       IN  outcomeLog[s].won + outcomeLog[s].lost + LoggedCalls(S \ {s})

OutcomeCallsMade ==
  Cardinality({i \in Slots : requests[i] # NoReq /\ requests[i].op = "updateAIStrategy"
                                /\ requests[i].arg.outcomeCall.is})
  + LoggedCalls(StrategyIds)

updateAIStrategyOutcome(strategyId, outcome, pnl) ==
  /\ OutcomeCallsMade < MaxOutcomeCalls
  /\ LET found == {k \in 1..Len(aiStrategies) : aiStrategies[k].id = strategyId}
     IN  IF found = {}
         THEN \* clearError(); if (!strategy) return;
              /\ error' = JSNull
              /\ lastEvent' = NoEvent
              /\ UNCHANGED <<trackedPredictions, trackedAccumulators, aiStrategies,
                             dbPredictions, dbAccumulators, dbStrategies, nextStrategyId,
                             requests, outcomeLog>>
         ELSE LET strategy == aiStrategies[CHOOSE k \in found : \A j \in found : k <= j]
                  updates == [outcome |-> outcome,
                              pnl |-> strategy.pnl + pnl,
                              wins |-> strategy.wins + (IF outcome = "Won" THEN 1 ELSE 0),
                              losses |-> strategy.losses + (IF outcome = "Lost" THEN 1 ELSE 0)]
              IN  updateAIStrategy(strategyId,
                                   updates,
                                   [is |-> TRUE, outcome |-> outcome, pnl |-> pnl])

(***************************************************************************)
(* The store: it either fails a call or applies it; the response reaches   *)
(* the context in a later step.                                            *)
(***************************************************************************)

Done(i, ok, err, data) ==
  requests' = [requests EXCEPT ![i] =
                 [op |-> requests[i].op, arg |-> requests[i].arg,
                  context |-> requests[i].context, phase |-> "done",
                  ok |-> ok, err |-> err, data |-> data]]

StoreFail(i, e) ==
  /\ requests[i] # NoReq /\ requests[i].phase = "sent"
  /\ Done(i, FALSE, e, JSNull)
  /\ lastEvent' = NoEvent
  /\ UNCHANGED <<trackedPredictions, trackedAccumulators, aiStrategies, error,
                 dbPredictions, dbAccumulators, dbStrategies, nextStrategyId, outcomeLog>>

StoreApply(i) ==
  /\ requests[i] # NoReq /\ requests[i].phase = "sent"
  /\ LET r == requests[i]
         a == r.arg
     IN  CASE r.op = "addPrediction" ->
                \* upsert(..., {onConflict: 'user_id,prediction_id'})
                /\ dbPredictions' = Put(dbPredictions, a.item.id,
                      [prediction_data |-> [id |-> a.item.id, matchDate |-> a.item.matchDate],
                       virtual_stake |-> a.item.virtualStake])
                /\ Done(i, TRUE, ErrNoMessage, JSNull)
                /\ UNCHANGED <<dbAccumulators, dbStrategies, nextStrategyId>>
           [] r.op = "removePrediction" ->
                /\ dbPredictions' = Del(dbPredictions, a.id)
                /\ Done(i, TRUE, ErrNoMessage, JSNull)
                /\ UNCHANGED <<dbAccumulators, dbStrategies, nextStrategyId>>
           [] r.op = "addAccumulator" ->
                /\ dbAccumulators' = Put(dbAccumulators, a.item.id,
                      [accumulator_data |-> [id |-> a.item.id, games |-> a.item.games,
                                             strategy_id |-> a.strategyId],
                       virtual_stake |-> a.item.virtualStake])
                /\ Done(i, TRUE, ErrNoMessage, JSNull)
                /\ UNCHANGED <<dbPredictions, dbStrategies, nextStrategyId>>
           [] r.op = "removeAccumulator" ->
                /\ dbAccumulators' = Del(dbAccumulators, a.id)
                /\ Done(i, TRUE, ErrNoMessage, JSNull)
                /\ UNCHANGED <<dbPredictions, dbStrategies, nextStrategyId>>
           [] r.op = "saveAIStrategy" ->
                \* insert(...).select().single(): the row with its new id
                LET row == [id |-> nextStrategyId, outcome |-> a.row.outcome, pnl |-> a.row.pnl,
                            wins |-> a.row.wins, losses |-> a.row.losses,
                            is_archived |-> a.row.is_archived]
                IN  /\ dbStrategies' = Put(dbStrategies, nextStrategyId, row)
                    /\ nextStrategyId' = nextStrategyId + 1
                    /\ Done(i, TRUE, ErrNoMessage, row)
                    /\ UNCHANGED <<dbPredictions, dbAccumulators>>
           [] r.op = "deleteAIStrategy" ->
                /\ dbStrategies' = Del(dbStrategies, a.id)
                /\ Done(i, TRUE, ErrNoMessage, JSNull)
                /\ UNCHANGED <<dbPredictions, dbAccumulators, nextStrategyId>>
           [] r.op = "updateAIStrategy" ->
                \* update(updates).match({id}).select().single(): no row is an error
                IF a.id \in DOMAIN dbStrategies
                THEN LET row == MergeRow(dbStrategies[a.id], a.updates)
                     IN  /\ dbStrategies' = Put(dbStrategies, a.id, row)
                         /\ Done(i, TRUE, ErrNoMessage, row)
                         /\ UNCHANGED <<dbPredictions, dbAccumulators, nextStrategyId>>
                ELSE /\ Done(i, FALSE, NoRowsError, JSNull)
                     /\ UNCHANGED <<dbPredictions, dbAccumulators, dbStrategies, nextStrategyId>>
  /\ lastEvent' = NoEvent
  /\ UNCHANGED <<trackedPredictions, trackedAccumulators, aiStrategies, error, outcomeLog>>

\* Mutant of RespondError: the local update is applied although the call failed.
RespondErrorOptimistic(i) ==
  /\ requests[i] # NoReq /\ requests[i].phase = "done" /\ ~requests[i].ok
  /\ error' = JSStr(handleSupabaseError(requests[i].err, requests[i].context))
  /\ requests' = [requests EXCEPT ![i] = NoReq]
  /\ lastEvent' = [op |-> requests[i].op, ok |-> FALSE, replaced |-> FALSE]
  /\ trackedPredictions' =
       IF requests[i].op = "addPrediction"
       THEN UpsertLocal(trackedPredictions, requests[i].arg.item, FALSE)
       ELSE trackedPredictions
  /\ UNCHANGED <<trackedAccumulators, aiStrategies,
                 dbPredictions, dbAccumulators, dbStrategies, nextStrategyId, outcomeLog>>

\* The part of a context operation after its await, when the call returned an error.
RespondError(i) ==
  /\ requests[i] # NoReq /\ requests[i].phase = "done" /\ ~requests[i].ok
  /\ error' = JSStr(handleSupabaseError(requests[i].err, requests[i].context))
  /\ requests' = [requests EXCEPT ![i] = NoReq]
  /\ lastEvent' = [op |-> requests[i].op, ok |-> FALSE, replaced |-> FALSE]
  /\ UNCHANGED <<trackedPredictions, trackedAccumulators, aiStrategies,
                 dbPredictions, dbAccumulators, dbStrategies, nextStrategyId, outcomeLog>>

LogOutcome(log, id, call) ==
  [log EXCEPT ![id] = [won |-> @.won + (IF call.outcome = "Won" THEN 1 ELSE 0),
                       lost |-> @.lost + (IF call.outcome = "Lost" THEN 1 ELSE 0),
                       pnl |-> @.pnl + call.pnl]]

\* The part of a context operation after its await, when the call succeeded.
RespondOk(i) ==
  /\ requests[i] # NoReq /\ requests[i].phase = "done" /\ requests[i].ok
  /\ LET r == requests[i]
         a == r.arg
     IN  CASE r.op = "addPrediction" ->
                /\ trackedPredictions' = UpsertLocal(trackedPredictions, a.item, FALSE)
                /\ UNCHANGED <<trackedAccumulators, aiStrategies, outcomeLog>>
           [] r.op = "removePrediction" ->
                /\ trackedPredictions' = FilterOutId(trackedPredictions, a.id)
                /\ UNCHANGED <<trackedAccumulators, aiStrategies, outcomeLog>>
           [] r.op = "addAccumulator" ->
                /\ trackedAccumulators' = UpsertLocal(trackedAccumulators, a.item, TRUE)
                /\ UNCHANGED <<trackedPredictions, aiStrategies, outcomeLog>>
           [] r.op = "removeAccumulator" ->
                /\ trackedAccumulators' = FilterOutId(trackedAccumulators, a.id)
                /\ UNCHANGED <<trackedPredictions, aiStrategies, outcomeLog>>
           [] r.op = "saveAIStrategy" ->
                /\ aiStrategies' = <<r.data>> \o aiStrategies
                /\ UNCHANGED <<trackedPredictions, trackedAccumulators, outcomeLog>>
           [] r.op = "deleteAIStrategy" ->
                /\ aiStrategies' = FilterOutId(aiStrategies, a.id)
                /\ UNCHANGED <<trackedPredictions, trackedAccumulators, outcomeLog>>
           [] r.op = "updateAIStrategy" ->
                /\ aiStrategies' = [k \in 1..Len(aiStrategies) |->
                                      IF aiStrategies[k].id = a.id THEN r.data ELSE aiStrategies[k]]
                /\ outcomeLog' = IF a.outcomeCall.is THEN LogOutcome(outcomeLog, a.id, a.outcomeCall)
                                 ELSE outcomeLog
                /\ UNCHANGED <<trackedPredictions, trackedAccumulators>>
  /\ requests' = [requests EXCEPT ![i] = NoReq]
  /\ lastEvent' = [op |-> requests[i].op, ok |-> TRUE,
                   replaced |-> /\ requests[i].op \in {"addPrediction", "addAccumulator"}
                                /\ requests[i].arg.item.id \in
                                     IdsOf(trackedPredictions) \cup IdsOf(trackedAccumulators)]
  /\ UNCHANGED <<error, dbPredictions, dbAccumulators, dbStrategies, nextStrategyId>>

\* clearAllTrackedBets() up to its await: clearError() and the two deletes sent
clearAllTrackedBets ==
  /\ FreeSlots # {}
  /\ LET i == CHOOSE j \in FreeSlots : \A k \in FreeSlots : j <= k
     IN  requests' = [requests EXCEPT ![i] =
                        [op |-> "clearAllTrackedBets", phase |-> "sentBoth"]]
  /\ error' = JSNull
  /\ lastEvent' = NoEvent
  /\ UNCHANGED <<trackedPredictions, trackedAccumulators, aiStrategies, dbPredictions,
                 dbAccumulators, dbStrategies, nextStrategyId, outcomeLog>>

\* The store answers the two deletes: each removes the user's rows of its
\* table or returns an error (JSNull: no error).
StoreClear(i, predError, accError) ==
  /\ requests[i] # NoReq /\ requests[i].phase = "sentBoth"
  /\ dbPredictions' = IF predError = JSNull THEN EmptyTable ELSE dbPredictions
  /\ dbAccumulators' = IF accError = JSNull THEN EmptyTable ELSE dbAccumulators
  /\ requests' = [requests EXCEPT ![i] =
                    [op |-> "clearAllTrackedBets", phase |-> "doneBoth",
                     predError |-> predError, accError |-> accError]]
  /\ lastEvent' = NoEvent
  /\ UNCHANGED <<trackedPredictions, trackedAccumulators, aiStrategies, error,
                 dbStrategies, nextStrategyId, outcomeLog>>

NoFailure == [failed |-> FALSE]
Failure(err, context) == [failed |-> TRUE, err |-> err, context |-> context]

\* Mutant of ClearFailure: the error of the accumulators' delete is not looked at.
ClearFailurePredictionsOnly(predError, accError) ==
  IF predError # JSNull THEN Failure(predError, "clearing all predictions")
  ELSE NoFailure

\* the two checks after the await: the error handled, if any
ClearFailure(predError, accError) ==
  IF predError # JSNull THEN Failure(predError, "clearing all predictions")
  ELSE IF accError # JSNull THEN Failure(accError, "clearing all accumulators")
  ELSE NoFailure

\* clearAllTrackedBets() after its await
RespondClear(i) ==
  /\ requests[i] # NoReq /\ requests[i].phase = "doneBoth"
  /\ LET failure == ClearFailure(requests[i].predError, requests[i].accError)
     IN  IF failure.failed
         THEN /\ error' = JSStr(handleSupabaseError(failure.err, failure.context))
              /\ UNCHANGED <<trackedPredictions, trackedAccumulators>>
         ELSE /\ trackedPredictions' = <<>>
              /\ trackedAccumulators' = <<>>
              /\ UNCHANGED error
  /\ requests' = [requests EXCEPT ![i] = NoReq]
  /\ lastEvent' = [op |-> "clearAllTrackedBets",
                   ok |-> requests[i].predError = JSNull /\ requests[i].accError = JSNull,
                   replaced |-> FALSE]
  /\ UNCHANGED <<aiStrategies, dbPredictions, dbAccumulators, dbStrategies,
                 nextStrategyId, outcomeLog>>

\* The rows of a table in the order the store returns them.
RECURSIVE RowsOf(_)
RowsOf(table) ==
  IF DOMAIN table = {} THEN <<>>
  ELSE LET k == CHOOSE x \in DOMAIN table : TRUE
       IN  <<table[k]>> \o RowsOf(Del(table, k))

\* { ...(item.prediction_data), virtualStake: item.virtual_stake }
PredictionFromRow(item) ==
  [id |-> item.prediction_data.id, matchDate |-> item.prediction_data.matchDate,
   virtualStake |-> item.virtual_stake]

\* { ...(item.accumulator_data), virtualStake: item.virtual_stake }
AccumulatorFromRow(item) ==
  [id |-> item.accumulator_data.id, games |-> item.accumulator_data.games,
   strategy_id |-> item.accumulator_data.strategy_id,
   virtualStake |-> item.virtual_stake]

\* the strategies, newest first
RECURSIVE StrategiesNewestFirst(_)
StrategiesNewestFirst(table) ==
  IF DOMAIN table = {} THEN <<>>
  ELSE LET k == CHOOSE x \in DOMAIN table : \A y \in DOMAIN table : y <= x
       IN  <<table[k]>> \o StrategiesNewestFirst(Del(table, k))

\* fetchData(), the three reads answered without error, while no other store
\* call is under way: the local lists are rebuilt from the stored rows
fetchData ==
  /\ \A i \in Slots : requests[i] = NoReq
  /\ LET preds == [k \in 1..Len(RowsOf(dbPredictions)) |->
                     PredictionFromRow(RowsOf(dbPredictions)[k])]
         accs == [k \in 1..Len(RowsOf(dbAccumulators)) |->
                    AccumulatorFromRow(RowsOf(dbAccumulators)[k])]
     IN  /\ trackedPredictions' = SortByTime(preds, FALSE)
         /\ trackedAccumulators' = SortByTime(accs, TRUE)
         /\ aiStrategies' = StrategiesNewestFirst(dbStrategies)
  /\ lastEvent' = [op |-> "fetchData", ok |-> TRUE, replaced |-> FALSE]
  /\ UNCHANGED <<error, dbPredictions, dbAccumulators, dbStrategies, nextStrategyId,
                 requests, outcomeLog>>

\* Dashboard: const strategyId = acc.strategy_id
StrategyIdOf(acc) ==
  IF "strategy_id" \in DOMAIN acc THEN acc.strategy_id ELSE JSUndefined

(***************************************************************************)
(* The expiring cache over localStorage.                                   *)
(***************************************************************************)
VARIABLES
  storage,     \* localStorage: the items under the 'cache_' prefix, by key
  now,         \* Date.now()
  lastSet,     \* per key: when setCachedData last stored it (0: never)
  cacheEvent   \* the cache operation run last, with what it returned and evicted

cacheVars == <<storage, now, lastSet, cacheEvent>>

DEFAULT_DURATION_MS == 15 * 60 * 1000
MAX_CACHE_SIZE == 50
CLEANUP_THRESHOLD_PERCENT == 80
EVICT_PERCENT == 20
SCORE_PER_ACCESS == 1000

Keys == 1..NumKeys
EmptyKey == 0

\* What a stored item may be: an entry written by the cache, or text written
\* by someone else: text that does not parse, or the empty string.  An entry
\* without a usable timestamp (missing, not a number, 0) has timestamp 0.
Entry(timestamp, data, accessCount, lastAccessed) ==
  [kind |-> "entry", timestamp |-> timestamp, data |-> data,
   accessCount |-> accessCount, lastAccessed |-> lastAccessed]
Unparsable == [kind |-> "unparsable"]
EmptyItem == [kind |-> "empty"]

CacheKeys(store) == DOMAIN store

\* entries: the items cleanupCache could read and parse
Parsed(store) == {k \in CacheKeys(store) : store[k].kind = "entry"}
Score(e) == e.lastAccessed + e.accessCount * SCORE_PER_ACCESS

\* Object.keys(localStorage) enumerates in an order the browser chooses; the
\* stable sort keeps that order among equal scores.
KeyOrders == {"ascending", "descending"}
EnumeratedBefore(j, k, order) == IF order = "ascending" THEN j < k ELSE j > k

\* Mutant of SortedBefore: the highest score first.
SortedBeforeDescending(store, j, k, order) ==
  \/ Score(store[j]) > Score(store[k])
  \/ Score(store[j]) = Score(store[k]) /\ EnumeratedBefore(j, k, order)

\* entries.sort((a, b) => scoreA - scoreB): j comes before k
SortedBefore(store, j, k, order) ==
  \/ Score(store[j]) < Score(store[k])
  \/ Score(store[j]) = Score(store[k]) /\ EnumeratedBefore(j, k, order)

\* Mutant of NeedsCleanup: the early return below the threshold is missing.
NeedsCleanupAlways(store) == TRUE

\* the negation of: keys.length < MAX_CACHE_SIZE * CLEANUP_THRESHOLD
NeedsCleanup(store) ==
  ~(Cardinality(CacheKeys(store)) * 100 < MAX_CACHE_SIZE * CLEANUP_THRESHOLD_PERCENT)

\* Mutant of Evicted: the pass removes nothing.
EvictedNothing(store, order) == {}

\* the keys removed by the loop over the first toRemove sorted entries
Evicted(store, order) ==
  LET entries == Parsed(store)
      toRemove == (Cardinality(entries) * EVICT_PERCENT) \div 100
      Index(k) == Cardinality({j \in entries : SortedBefore(store, j, k, order)})
  IN  IF NeedsCleanup(store) THEN {k \in entries : Index(k) < toRemove} ELSE {}

\* the keys removed because JSON.parse threw
Invalid(store) ==
  IF NeedsCleanup(store) THEN {k \in CacheKeys(store) : store[k].kind = "unparsable"} ELSE {}

RemoveItems(store, keys) == [k \in CacheKeys(store) \ keys |-> store[k]]

cleanupCache(store, order) ==
  RemoveItems(store, Evicted(store, order) \cup Invalid(store))

\* Mutant of IsExpired: an entry whose age equals the duration is expired.
IsExpiredAtDuration(entry, t) == t - entry.timestamp >= DEFAULT_DURATION_MS

\* Date.now() - entry.timestamp > CACHE_CONFIG.DEFAULT_DURATION_MS
IsExpired(entry, t) == t - entry.timestamp > DEFAULT_DURATION_MS

\* Mutant of Touched: a hit also renews the timestamp.
TouchedAndRenewed(entry, t) == Entry(t, entry.data, entry.accessCount + 1, t)

\* entry.accessCount = (entry.accessCount || 0) + 1; entry.lastAccessed = Date.now()
Touched(entry, t) == Entry(entry.timestamp, entry.data, entry.accessCount + 1, t)

\* found: the item a get found under its key
CacheEvent(op, key, ret, cleanups, evicted) ==
  [op |-> op, key |-> key, ret |-> ret, cleanups |-> cleanups, evicted |-> evicted,
   found |-> IF op = "get" /\ key \in CacheKeys(storage) THEN storage[key] ELSE JSNull]
NoCacheEvent == [op |-> "none"]

getCachedData(key) ==
  /\ (key \in CacheKeys(storage) /\ storage[key].kind = "entry")
        => storage[key].accessCount < MaxAccessCount
  /\ IF key = EmptyKey \/ key \notin CacheKeys(storage) \/ storage[key].kind = "empty"
     THEN \* !key, or !cachedItem
          /\ cacheEvent' = CacheEvent("get", key, JSNull, 0, {})
          /\ UNCHANGED storage
     ELSE IF storage[key].kind = "unparsable" \/ storage[key].timestamp = 0
             \/ IsExpired(storage[key], now)
     THEN \* JSON.parse threw, the timestamp is invalid, or the entry is expired
          /\ storage' = RemoveItems(storage, {key})
          /\ cacheEvent' = CacheEvent("get", key, JSNull, 0, {})
     ELSE /\ storage' = [storage EXCEPT ![key] = Touched(@, now)]
          /\ cacheEvent' = CacheEvent("get", key, storage[key].data, 0, {})
  /\ UNCHANGED <<now, lastSet>>

\* cleaned is localStorage as the cleanupCache() call at the start of the try
\* block leaves it.  outcome: "stored"; "tooLarge": the 5MB check returned;
\* "quota": setItem threw QuotaExceededError, the catch block ran cleanupCache
\* again and its retry failed on the names that are out of its scope.
\* cacheEvent.evicted is what the first pass took by score.
setCachedData(key, data, outcome, order, cleaned) ==
  IF key = EmptyKey \/ data = JSNull
  THEN /\ cacheEvent' = CacheEvent("set", key, JSNull, 0, {})
       /\ UNCHANGED <<storage, lastSet, now>>
  ELSE LET evicted == Parsed(storage) \ CacheKeys(cleaned)
       IN  /\ CASE outcome = "tooLarge" ->
                     /\ storage' = cleaned
                     /\ cacheEvent' = CacheEvent("set", key, JSNull, 1, evicted)
                     /\ UNCHANGED lastSet
                [] outcome = "quota" ->
                     /\ storage' = cleanupCache(cleaned, order)
                     /\ cacheEvent' = CacheEvent("set", key, JSNull, 2, evicted)
                     /\ UNCHANGED lastSet
                [] outcome = "stored" ->
                     /\ storage' = [k \in CacheKeys(cleaned) \cup {key} |->
                                      IF k = key THEN Entry(now, data, 0, now) ELSE cleaned[k]]
                     /\ cacheEvent' = CacheEvent("set", key, JSNull, 1, evicted)
                     /\ lastSet' = [lastSet EXCEPT ![key] = now]
           /\ UNCHANGED now

Tick(d, maxTime) ==
  /\ now + d <= maxTime
  /\ now' = now + d
  /\ UNCHANGED <<storage, lastSet, cacheEvent>>

\* A store a session may start with: n entries written at time 1 and read up
\* to twice since, the first two of them possibly replaced by foreign text.
InitVariants == {<<"entry", "entry">>, <<"noTimestamp", "entry">>,
                 <<"unparsable", "unparsable">>, <<"empty", "empty">>}
InitItem(k, variant) ==
  CASE variant = "entry" -> Entry(1, JSStr("a"), k % 3, 1)
    [] variant = "noTimestamp" -> Entry(0, JSStr("a"), k % 3, 1)
    [] variant = "unparsable" -> Unparsable
    [] variant = "empty" -> EmptyItem

InitStorage(sizes) ==
  /\ now = 1
  /\ \E n \in sizes, v \in InitVariants :
       storage = [k \in 1..n |-> IF k = 1 THEN InitItem(k, v[1])
                                 ELSE IF k = 2 THEN InitItem(k, v[2])
                                 ELSE InitItem(k, "entry")]
  /\ lastSet = [k \in Keys |->
                  IF k \in CacheKeys(storage) /\ storage[k].kind = "entry"
                  THEN storage[k].timestamp ELSE 0]
  /\ cacheEvent = NoCacheEvent

\* the key of a fetch not made before: the one after every key used so far
FreshKeys ==
  LET used == CacheKeys(storage) \cup {k \in Keys : lastSet[k] > 0} \cup {2}
  IN  {k \in Keys : (k - 1) \in used /\ \A u \in used : u < k}

SetArguments(freshKeys) ==
  {<<EmptyKey, JSStr("a")>>, <<1, JSStr("a")>>, <<1, JSStr("b")>>, <<1, JSNull>>}
    \cup {<<k, JSStr("a")>> : k \in freshKeys}

SetOps(freshKeys) ==
  \E order \in KeyOrders :
    \E cleaned \in {cleanupCache(storage, order)} :
      \E a \in SetArguments(freshKeys), outcome \in {"stored", "tooLarge", "quota"} :
        setCachedData(a[1], a[2], outcome, order, cleaned)

(***************************************************************************)
(* handleSupabaseError on its own, over messages put together from         *)
(* fragments.                                                              *)
(***************************************************************************)
VARIABLES
  clsError,    \* the error object handed to handleSupabaseError
  clsContext,  \* the context string handed to it
  clsResult    \* JSNull, then the string it passed to setError

clsVars == <<clsError, clsContext, clsResult>>

Fragments ==
  { <<"A", "P", "I", " ", "k", "e", "y">>,
    <<"a", "p", "i">>,
    <<" ", "k", "e", "y">>,
    <<"R", "e", "l", "a", "t", "i", "o", "n">>,
    <<"r", "e", "l">>,
    <<"a", "t", "i", "o", "n", " ", "x", " ">>,
    <<"d", "o", "e", "s", " ", "N", "O", "T", " ", "e", "x", "i", "s", "t">>,
    <<"d", "o", "e", "s", " ", "e", "x", "i", "s", "t">> }

RECURSIVE Messages(_)
Messages(n) ==
  IF n = 0 THEN {<<>>}
  ELSE LET shorter == Messages(n - 1)
       IN  shorter \cup {m \o f : m \in shorter, f \in Fragments}

ClassifyContexts == {"tracking the prediction", "loading AI strategies"}

ClassifyInputs ==
  /\ clsError \in {ErrNoMessage} \cup {ErrObj(m) : m \in Messages(MaxFragments)}
  /\ clsContext \in ClassifyContexts
  /\ clsResult = JSNull

Classify ==
  /\ clsResult = JSNull
  /\ clsResult' = JSStr(handleSupabaseError(clsError, clsContext))
  /\ UNCHANGED <<clsError, clsContext>>

IdleClassify == clsError = ErrNoMessage /\ clsContext = "" /\ clsResult = JSNull

(***************************************************************************)
(* A cached fetch operation against the generative-AI endpoint             *)
(* (fetchFootballPageData and the operations of its shape).                *)
(***************************************************************************)
VARIABLES
  fetch   \* the fetch operation under way or ended last

fetchVars == <<fetch>>

MAX_RETRIES == 3

NoFetch == [state |-> "idle"]
Fetch(state, key, aiCalls, result) ==
  [state |-> state, key |-> key, aiCalls |-> aiCalls, result |-> result]

\* Mutant of fetchStart: the cache is read and its answer is not used.
fetchStartAlwaysAsks(key, forceRefresh) ==
  /\ fetch.state # "awaiting"
  /\ IF forceRefresh
     THEN /\ fetch' = Fetch("awaiting", key, 1, JSNull)
          /\ UNCHANGED cacheVars
     ELSE /\ getCachedData(key)
          /\ fetch' = Fetch("awaiting", key, 1, JSNull)

\* The operation up to its first await: the cache is asked unless forceRefresh,
\* a hit is returned, otherwise ai.models.generateContent is called.
fetchStart(key, forceRefresh) ==
  /\ fetch.state # "awaiting"
  /\ IF forceRefresh
     THEN /\ fetch' = Fetch("awaiting", key, 1, JSNull)
          /\ UNCHANGED cacheVars
     ELSE /\ getCachedData(key)
          /\ fetch' = IF cacheEvent'.ret # JSNull
                      THEN Fetch("resolved", key, 0, cacheEvent'.ret)
                      ELSE Fetch("awaiting", key, 1, JSNull)

\* generateContent resolved: parseJsonResponse gave parsedData (null or the
\* data), which is cached when it is not null and returned.
fetchResponse(parsedData, outcome, order) ==
  /\ fetch.state = "awaiting"
  /\ IF parsedData # JSNull
     THEN \E cleaned \in {cleanupCache(storage, order)} :
            setCachedData(fetch.key, parsedData, outcome, order, cleaned)
     ELSE UNCHANGED cacheVars
  /\ fetch' = Fetch("resolved", fetch.key, fetch.aiCalls, parsedData)

\* generateContent rejected: nothing catches it, the operation rejects.
fetchFailure ==
  /\ fetch.state = "awaiting"
  /\ fetch' = Fetch("rejected", fetch.key, fetch.aiCalls, JSNull)
  /\ UNCHANGED cacheVars

IdleFetch == fetch = NoFetch

(***************************************************************************)
(* parseJsonResponse: the normalizer of the AI's reply.  Text is a         *)
(* sequence of characters; the regular expressions are computed by         *)
(* scanning.                                                               *)
(***************************************************************************)
\* The character U+0060, which cannot be written inside a TLA+ string.
Backtick == "GRAVE"

Whitespace == {" ", "\n", "\t", "\r"}
Digits == {"0", "1", "2", "3", "4", "5", "6", "7", "8", "9"}
WordChars ==
  {UpperCase[i] : i \in 1..Len(UpperCase)} \cup {LowerCase[i] : i \in 1..Len(LowerCase)}
    \cup Digits \cup {"_"}

\* The first index from i on whose character is not in set (Len(s) + 1 if none).
RECURSIVE Run(_, _, _)
Run(s, i, set) == IF i <= Len(s) /\ s[i] \in set THEN Run(s, i + 1, set) ELSE i

\* The last index up to i whose character is not in set (0 if none).
RECURSIVE RunBack(_, _, _)
RunBack(s, i, set) == IF i >= 1 /\ s[i] \in set THEN RunBack(s, i - 1, set) ELSE i

trim(s) == SubSeq(s, Run(s, 1, Whitespace), RunBack(s, Len(s), Whitespace))

MatchAt(s, i, lit) == i >= 1 /\ i + Len(lit) - 1 <= Len(s) /\ SubSeq(s, i, i + Len(lit) - 1) = lit

startsWith(s, prefix) == MatchAt(s, 1, prefix)

\* The first index from `from` on where lit occurs, 0 when it does not.
FirstAt(s, lit, from) ==
  LET hits == {i \in from..Len(s) : MatchAt(s, i, lit)}
  IN  IF hits = {} THEN 0 ELSE CHOOSE i \in hits : \A j \in hits : i <= j

\* text.indexOf(lit): counted from 0, -1 when lit does not occur
indexOf(s, lit) == FirstAt(s, lit, 1) - 1

\* text.substring(start), start counted from 0
substring(s, start) == SubSeq(s, start + 1, Len(s))

isValidJsonStart(text) ==
  LET trimmed == trim(text)
  IN  startsWith(trimmed, <<"{">>) \/ startsWith(trimmed, <<"[">>)

conversationalKeywords ==
  {
    <<"i", " ", "a", "m", " ", "s", "o", "r", "r", "y">>,
    <<"i", " ", "c", "a", "n", "n", "o", "t">>,
    <<"u", "n", "a", "b", "l", "e", " ", "t", "o", " ", "f", "i", "n", "d">>,
    <<"c", "o", "u", "l", "d", " ", "n", "o", "t", " ", "f", "i", "n", "d">>,
    <<"n", "o", " ", "v", "e", "r", "i", "f", "i", "a", "b", "l", "e", " ", "m", "a", "t", "c",
      "h", "e", "s">>,
    <<"n", "o", " ", "f", "o", "o", "t", "b", "a", "l", "l", " ", "m", "a", "t", "c", "h", "e",
      "s">>,
    <<"d", "a", "t", "a", " ", "i", "s", " ", "n", "o", "t", " ", "a", "v", "a", "i", "l", "a",
      "b", "l", "e">>,
    <<"n", "o", "t", " ", "p", "o", "s", "s", "i", "b", "l", "e", " ", "t", "o", " ", "f", "u",
      "l", "f", "i", "l", "l">>,
    <<"n", "o", " ", "o", "d", "d", "s", " ", "w", "e", "r", "e", " ", "p", "r", "o", "v", "i",
      "d", "e", "d">>,
    <<"c", "h", "a", "l", "l", "e", "n", "g", "i", "n", "g">>,
    <<"a", "b", "s", "e", "n", "c", "e", " ", "o", "f", " ", "r", "e", "a", "d", "i", "l", "y",
      " ", "a", "v", "a", "i", "l", "a", "b", "l", "e">>,
    <<"n", "o", "t", " ", "p", "o", "s", "s", "i", "b", "l", "e", " ", "t", "o", " ", "f", "u",
      "l", "f", "i", "l", "l", " ", "t", "h", "e", " ", "r", "e", "q", "u", "e", "s", "t">>,
    <<"d", "u", "e", " ", "t", "o", " ", "t", "h", "e", " ", "n", "a", "t", "u", "r", "e">>,
    <<"u", "n", "a", "b", "l", "e", " ", "t", "o", " ", "p", "r", "o", "v", "i", "d", "e">>,
    <<"n", "o", "t", " ", "p", "o", "s", "s", "i", "b", "l", "e", " ", "t", "o", " ", "p", "r",
      "o", "v", "i", "d", "e">>,
    <<"a", "s", " ", "a", "n", " ", "a", "i">>,
    <<"a", "p", "p", "r", "o", "p", "r", "i", "a", "t", "e", " ", "r", "e", "s", "p", "o", "n",
      "s", "e", " ", "i", "s", " ", Backtick, "n", "u", "l", "l", Backtick>>,
    <<"t", "h", "e", " ", "r", "e", "s", "p", "o", "n", "s", "e", " ", "w", "i", "l", "l", " ",
      "b", "e", " ", Backtick, "n", "u", "l", "l", Backtick>>,
    <<"b", "a", "s", "e", "d", " ", "o", "n", " ", "t", "h", "e", " ", "a", "v", "a", "i", "l",
      "a", "b", "l", "e", " ", "i", "n", "f", "o", "r", "m", "a", "t", "i", "o", "n">>,
    <<"a", "i", " ", "p", "r", "e", "d", "i", "c", "t", "i", "o", "n", ":">>,
    <<"a", "i", " ", "r", "a", "t", "i", "o", "n", "a", "l", "e", ":">>
  }

NullText == <<"n", "u", "l", "l">>

\* /`?null`?\.?\s*$/.test(lowerText)
EndsInNull(lowerText) ==
  \E i \in 1..Len(lowerText) :
     /\ MatchAt(lowerText, i, NullText)
     /\ LET a == i + 4
            b == IF a <= Len(lowerText) /\ lowerText[a] = Backtick THEN a + 1 ELSE a
            c == IF b <= Len(lowerText) /\ lowerText[b] = "." THEN b + 1 ELSE b
        IN  Run(lowerText, c, Whitespace) = Len(lowerText) + 1

hasConversationalContent(lowerText) ==
  \/ \E keyword \in conversationalKeywords : includes(lowerText, keyword)
  \/ EndsInNull(lowerText)

Fence == <<Backtick, Backtick, Backtick>>
JsonWord == <<"j", "s", "o", "n">>

\* text.match(/```(?:json)?\s*([\s\S]*?)\s*```/): whether it matched, and group 1
FenceMatch(text) ==
  LET open == FirstAt(text, Fence, 1)
      afterOpen == open + 3
      afterJson == IF MatchAt(text, afterOpen, JsonWord) THEN afterOpen + 4 ELSE afterOpen
      start == Run(text, afterJson, Whitespace)
      close == IF open = 0 THEN 0 ELSE FirstAt(text, Fence, start)
  IN  IF close = 0 THEN [matched |-> FALSE, group |-> <<>>]
      ELSE [matched |-> TRUE,
            group |-> SubSeq(text, start, RunBack(text, close - 1, Whitespace))]

extractJsonFromResponse(text) ==
  LET match == FenceMatch(text)
      jsonStartIndex == indexOf(text, <<"{">>)
      arrayStartIndex == indexOf(text, <<"[">>)
      startIndex == IF jsonStartIndex > -1 /\ arrayStartIndex > -1
                    THEN (IF jsonStartIndex < arrayStartIndex THEN jsonStartIndex
                          ELSE arrayStartIndex)
                    ELSE (IF jsonStartIndex > arrayStartIndex THEN jsonStartIndex
                          ELSE arrayStartIndex)
  IN  IF match.matched /\ match.group # <<>> THEN trim(match.group)
      ELSE IF startIndex # -1 THEN substring(text, startIndex) ELSE text

AnnotationHead ==
  <<"t", "a", "p", "p", "e", "d", " ", "f", "r", "o", "m", " ", "s", "e", "a", "r", "c", "h", " ",
    "r", "e", "s", "u", "l", "t", " ", "[">>

\* (,\s*\d+)*\] from index k: the index after the "]", 0 when it does not match
RECURSIVE AnnotationTail(_, _)
AnnotationTail(s, k) ==
  IF k > Len(s) THEN 0
  ELSE IF s[k] = "]" THEN k + 1
  ELSE IF s[k] = ","
       THEN LET d == Run(s, k + 1, Whitespace)
                e == Run(s, d, Digits)
            IN  IF e > d THEN AnnotationTail(s, e) ELSE 0
       ELSE 0

\* /tapped from search result \[\d+(,\s*\d+)*\]/ at index i: the index after
\* the match, 0 when there is none
AnnotationEnd(s, i) ==
  IF ~MatchAt(s, i, AnnotationHead) THEN 0
  ELSE LET d == i + Len(AnnotationHead)
           e == Run(s, d, Digits)
       IN  IF e > d THEN AnnotationTail(s, e) ELSE 0

RECURSIVE RemoveAnnotations(_, _)
RemoveAnnotations(s, i) ==
  IF i > Len(s) THEN <<>>
  ELSE LET e == AnnotationEnd(s, i)
       IN  IF e # 0 THEN RemoveAnnotations(s, e)
           ELSE <<s[i]>> \o RemoveAnnotations(s, i + 1)

\* /(?<=")\s+\w+\s*(?=[,}\]])/ at index i
RogueWordEnd(s, i) ==
  IF ~(i >= 2 /\ s[i - 1] = "\"") THEN 0
  ELSE LET a == Run(s, i, Whitespace)
           b == Run(s, a, WordChars)
           c == Run(s, b, Whitespace)
       IN  IF a > i /\ b > a /\ c <= Len(s) /\ s[c] \in {",", "}", "]"} THEN c ELSE 0

RECURSIVE RemoveRogueWords(_, _)
RemoveRogueWords(s, i) ==
  IF i > Len(s) THEN <<>>
  ELSE LET e == RogueWordEnd(s, i)
       IN  IF e # 0 THEN RemoveRogueWords(s, e)
           ELSE <<s[i]>> \o RemoveRogueWords(s, i + 1)

\* /(\d{2}:\d{2}:\d{2}):\d{2}(Z)/ at index i
IsMalformedDate(s, i) ==
  /\ i + 11 <= Len(s)
  /\ \A k \in {0, 1, 3, 4, 6, 7, 9, 10} : s[i + k] \in Digits
  /\ \A k \in {2, 5, 8} : s[i + k] = ":"
  /\ s[i + 11] = "Z"

RECURSIVE RepairDates(_, _)
RepairDates(s, i) ==
  IF i > Len(s) THEN <<>>
  ELSE IF IsMalformedDate(s, i)
       THEN SubSeq(s, i, i + 7) \o <<"Z">> \o RepairDates(s, i + 12)
       ELSE <<s[i]>> \o RepairDates(s, i + 1)

\* /(Z")\s*\w+\s*(\w+)(?=:)/ at index i: the index after the match and group 2
MergedObject(s, i) ==
  IF ~MatchAt(s, i, <<"Z", "\"">>) THEN [end |-> 0, key |-> <<>>]
  ELSE LET a == Run(s, i + 2, Whitespace)
           b == Run(s, a, WordChars)
           c == Run(s, b, Whitespace)
           d == Run(s, c, WordChars)
       IN  IF b > a /\ c > b /\ d > c /\ d <= Len(s) /\ s[d] = ":"
           THEN [end |-> d, key |-> SubSeq(s, c, d - 1)]
           ELSE IF b > a + 1 /\ b <= Len(s) /\ s[b] = ":"
                THEN [end |-> b, key |-> <<s[b - 1]>>]
                ELSE [end |-> 0, key |-> <<>>]

RECURSIVE SplitMergedObjects(_, _)
SplitMergedObjects(s, i) ==
  IF i > Len(s) THEN <<>>
  ELSE LET m == MergedObject(s, i)
       IN  IF m.end # 0
           THEN <<"Z", "\"", "}", ",", " ", "{", "\"">> \o m.key \o <<"\"">>
                  \o SplitMergedObjects(s, m.end)
           ELSE <<s[i]>> \o SplitMergedObjects(s, i + 1)

sanitizeJsonString(text) ==
  LET t1 == RemoveAnnotations(text, 1)
      t2 == RemoveRogueWords(t1, 1)
      t3 == RepairDates(t2, 1)
  IN  SplitMergedObjects(t3, 1)

(***************************************************************************)
(* JSON.parse over the JSON grammar without \b, \f and \u escapes; a       *)
(* number is kept as its text.  A result is [ok, val, next]: whether a     *)
(* value was read, the value, and the index after it.                      *)
(***************************************************************************)
JsonFail == [ok |-> FALSE, val |-> <<>>, next |-> 0]
JsonOk(val, next) == [ok |-> TRUE, val |-> val, next |-> next]

JsonString(chars) == [t |-> "string", v |-> chars]
JsonNumber(text) == [t |-> "number", v |-> text]
JsonArray(elements) == [t |-> "array", v |-> elements]
JsonObject(members) == [t |-> "object", v |-> members]   \* <<key, value>> pairs
JsonTrue == [t |-> "true", v |-> <<>>]
JsonFalse == [t |-> "false", v |-> <<>>]
JsonNull == [t |-> "null", v |-> <<>>]

Escapes == [c \in {"\"", "\\", "/", "n", "t", "r"} |->
              CASE c = "n" -> "\n" [] c = "t" -> "\t" [] c = "r" -> "\r" [] OTHER -> c]

\* the characters of a string from index i on, up to its closing quote
RECURSIVE ParseString(_, _, _)
ParseString(s, i, acc) ==
  IF i > Len(s) THEN JsonFail
  ELSE IF s[i] = "\"" THEN JsonOk(JsonString(acc), i + 1)
  ELSE IF s[i] = "\\"
       THEN IF i + 1 <= Len(s) /\ s[i + 1] \in DOMAIN Escapes
            THEN ParseString(s, i + 2, Append(acc, Escapes[s[i + 1]]))
            ELSE JsonFail
  ELSE IF s[i] \in {"\n", "\t", "\r"} THEN JsonFail
  ELSE ParseString(s, i + 1, Append(acc, s[i]))

\* -?(0|[1-9]\d*)(\.\d+)?([eE][+-]?\d+)?
ParseNumber(s, i) ==
  LET a == IF i <= Len(s) /\ s[i] = "-" THEN i + 1 ELSE i
      b == IF a <= Len(s) /\ s[a] = "0" THEN a + 1 ELSE Run(s, a, Digits)
      c == IF b <= Len(s) /\ s[b] = "." THEN Run(s, b + 1, Digits) ELSE b
      e0 == IF c <= Len(s) /\ s[c] \in {"e", "E"} THEN c + 1 ELSE c
      e1 == IF e0 > c /\ e0 <= Len(s) /\ s[e0] \in {"+", "-"} THEN e0 + 1 ELSE e0
      d == IF e0 > c THEN Run(s, e1, Digits) ELSE c
  IN  IF b = a THEN JsonFail
      ELSE IF b <= Len(s) /\ s[b] = "." /\ c = b + 1 THEN JsonFail
      ELSE IF e0 > c /\ d = e1 THEN JsonFail
      ELSE JsonOk(JsonNumber(SubSeq(s, i, d - 1)), d)

\* a later member with the same key replaces the earlier one's value
SetMember(members, key, val) ==
  IF \E k \in 1..Len(members) : members[k][1] = key
  THEN [k \in 1..Len(members) |-> IF members[k][1] = key THEN <<key, val>> ELSE members[k]]
  ELSE Append(members, <<key, val>>)

RECURSIVE ParseValue(_, _)
RECURSIVE ParseElements(_, _, _)
RECURSIVE ParseMembers(_, _, _)

ParseValue(s, i) ==
  LET j == Run(s, i, Whitespace)
  IN  IF j > Len(s) THEN JsonFail
      ELSE IF s[j] = "{"
           THEN LET k == Run(s, j + 1, Whitespace)
                IN  IF k <= Len(s) /\ s[k] = "}" THEN JsonOk(JsonObject(<<>>), k + 1)
                    ELSE ParseMembers(s, k, <<>>)
      ELSE IF s[j] = "["
           THEN LET k == Run(s, j + 1, Whitespace)
                IN  IF k <= Len(s) /\ s[k] = "]" THEN JsonOk(JsonArray(<<>>), k + 1)
                    ELSE ParseElements(s, k, <<>>)
      ELSE IF s[j] = "\"" THEN ParseString(s, j + 1, <<>>)
      ELSE IF MatchAt(s, j, <<"t", "r", "u", "e">>) THEN JsonOk(JsonTrue, j + 4)
      ELSE IF MatchAt(s, j, <<"f", "a", "l", "s", "e">>) THEN JsonOk(JsonFalse, j + 5)
      ELSE IF MatchAt(s, j, NullText) THEN JsonOk(JsonNull, j + 4)
      ELSE ParseNumber(s, j)

\* the elements of an array from index i on, up to its "]"
ParseElements(s, i, acc) ==
  LET r == ParseValue(s, i)
      k == Run(s, r.next, Whitespace)
  IN  IF ~r.ok \/ k > Len(s) THEN JsonFail
      ELSE IF s[k] = "]" THEN JsonOk(JsonArray(Append(acc, r.val)), k + 1)
      ELSE IF s[k] = "," THEN ParseElements(s, k + 1, Append(acc, r.val))
      ELSE JsonFail

\* the members of an object from index i (at a key) on, up to its "}"
ParseMembers(s, i, acc) ==
  IF ~(i <= Len(s) /\ s[i] = "\"") THEN JsonFail
  ELSE LET key == ParseString(s, i + 1, <<>>)
           colon == Run(s, key.next, Whitespace)
       IN  IF ~key.ok \/ ~(colon <= Len(s) /\ s[colon] = ":") THEN JsonFail
           ELSE LET r == ParseValue(s, colon + 1)
                    k == Run(s, r.next, Whitespace)
                IN  IF ~r.ok \/ k > Len(s) THEN JsonFail
                    ELSE IF s[k] = "}"
                         THEN JsonOk(JsonObject(SetMember(acc, key.val.v, r.val)), k + 1)
                    ELSE IF s[k] = ","
                         THEN ParseMembers(s, Run(s, k + 1, Whitespace),
                                           SetMember(acc, key.val.v, r.val))
                    ELSE JsonFail

\* JSON.parse(text): the value, or the SyntaxError it throws
JSONparse(text) ==
  LET r == ParseValue(text, 1)
  IN  IF r.ok /\ Run(text, r.next, Whitespace) = Len(text) + 1
      THEN [threw |-> FALSE, val |-> r.val]
      ELSE [threw |-> TRUE, val |-> <<>>]

(***************************************************************************)
(* parseJsonResponse.                                                      *)
(***************************************************************************)
\* a value parsed from JSON, as the JavaScript value it is
JSJson(val) == [tag |-> "json", val |-> val]
FromJson(val) == IF val = JsonNull THEN JSNull ELSE JSJson(val)

\* values that are not strings: typeof 'object', typeof 'number'
SomeObject == [tag |-> "object", fields |-> [predictions |-> JSNull]]
SomeNumber == [tag |-> "number", val |-> 7]

Returned(value) == [kind |-> "return", value |-> value]
Thrown == [kind |-> "throw", value |-> JSUndefined]
Pending == [kind |-> "pending", value |-> JSUndefined]

\* the body of the try block
TryParse(textToParse) ==
  IF toLowerCase(trim(textToParse)) = NullText THEN Returned(JSNull)
  ELSE LET parsed == JSONparse(textToParse)
       IN  IF parsed.threw THEN Thrown ELSE Returned(FromJson(parsed.val))

\* Mutant of Catch: the error is thrown on.
CatchRethrows(outcome) == outcome

\* the catch block: whatever the try block threw becomes a null return
Catch(outcome) == IF outcome.kind = "throw" THEN Returned(JSNull) ELSE outcome

\* Mutant of ShortCircuits: only the trailing null is looked for.
ShortCircuitsOnNullOnly(textToParse, lowerCaseText) ==
  ~isValidJsonStart(textToParse) /\ EndsInNull(lowerCaseText)

\* the test that short-circuits to null
ShortCircuits(textToParse, lowerCaseText) ==
  ~isValidJsonStart(textToParse) /\ hasConversationalContent(lowerCaseText)

\* Mutant of parseJsonResponse: text that is not JSON is handed back as it is.
parseJsonResponseLenient(jsonString) ==
  IF jsonString.tag # "string" THEN Returned(JSNull)
  ELSE LET parsed == JSONparse(trim(jsonString.val))
       IN  IF parsed.threw THEN Returned(jsonString) ELSE Returned(FromJson(parsed.val))

parseJsonResponse(jsonString) ==
  IF jsonString.tag \in {"null", "undefined"} THEN Returned(JSNull)
  ELSE IF jsonString.tag = "object" THEN Returned(jsonString)
  ELSE IF jsonString.tag # "string" THEN Returned(JSNull)
  ELSE LET textToParse == trim(jsonString.val)
           lowerCaseText == toLowerCase(textToParse)
       IN  IF lowerCaseText = NullText THEN Returned(JSNull)
           ELSE IF ShortCircuits(textToParse, lowerCaseText) THEN Returned(JSNull)
           ELSE Catch(TryParse(sanitizeJsonString(extractJsonFromResponse(textToParse))))

VARIABLES
  parseInput,    \* the value handed to parseJsonResponse
  parseSample,   \* when the input is fenced JSON with prose around it: the JSON
  parseOutcome   \* Pending, then what parseJsonResponse returned or threw

parseVars == <<parseInput, parseSample, parseOutcome>>

\* well-formed JSON texts, each with the value it stands for
JsonSamples ==
  {
    [text |->
        <<"{", "\"", "a", "\"", ":", " ", "1", "}">>,
     value |-> JsonObject(<<<<<<"a">>, JsonNumber(<<"1">>)>>>>)],
    [text |->
        <<"[", "\"", "x", "\"", ",", " ", "\"", "y", "\"", "]">>,
     value |-> JsonArray(<<JsonString(<<"x">>), JsonString(<<"y">>)>>)],
    [text |->
        <<"[", "]">>,
     value |-> JsonArray(<<>>)],
    [text |->
        <<"{", "\"", "k", "\"", ":", " ", "[", "t", "r", "u", "e", ",", " ", "n", "u", "l", "l",
          "]", "}">>,
     value |-> JsonObject(<<<<<<"k">>, JsonArray(<<JsonTrue, JsonNull>>)>>>>)],
    [text |->
        <<"{", "\"", "p", "i", "c", "k", "\"", ":", " ", "\"", " ", "A", "r", "s", "e", "n", "a",
          "l", ",", " ", "t", "o", " ", "w", "i", "n", "\"", "}">>,
     value |-> JsonObject(<<<<<<"p", "i", "c", "k">>, JsonString(<<" ", "A", "r", "s", "e", "n", "a", "l", ",", " ", "t", "o", " ", "w", "i", "n">>)>>>>)],
    [text |->
        <<"{", "\"", "n", "o", "t", "e", "\"", ":", " ", "\"", "I", " ", "c", "a", "n", "n", "o",
          "t", " ", "l", "o", "s", "e", "\"", "}">>,
     value |-> JsonObject(<<<<<<"n", "o", "t", "e">>, JsonString(<<"I", " ", "c", "a", "n", "n", "o", "t", " ", "l", "o", "s", "e">>)>>>>)],
    [text |->
        <<"{", "\"", "t", "\"", ":", " ", "\"", "1", "0", ":", "2", "0", ":", "3", "0", ":", "4",
          "0", "Z", "\"", "}">>,
     value |-> JsonObject(<<<<<<"t">>, JsonString(<<"1", "0", ":", "2", "0", ":", "3", "0", ":", "4", "0", "Z">>)>>>>)]
  }

NoSample == [text |-> <<>>, value |-> JsonNull]

ProseBefore ==
  {
    <<>>,
    <<"H", "e", "r", "e", " ", "i", "s", " ", "t", "h", "e", " ", "d", "a", "t", "a", ":", "\n">>,
    <<"B", "a", "s", "e", "d", " ", "o", "n", " ", "t", "h", "e", " ", "a", "v", "a", "i", "l",
      "a", "b", "l", "e", " ", "i", "n", "f", "o", "r", "m", "a", "t", "i", "o", "n", ",", " ",
      "h", "e", "r", "e", " ", "i", "t", " ", "i", "s", ":", "\n">>,
    <<"A", "s", " ", "a", "n", " ", "A", "I", " ", "I", " ", "f", "o", "u", "n", "d", " ", "t",
      "h", "i", "s", ".", "\n">>
  }

ProseAfter ==
  {
    <<>>,
    <<"\n", "H", "o", "p", "e", " ", "t", "h", "i", "s", " ", "h", "e", "l", "p", "s", ".">>,
    <<"\n", "O", "t", "h", "e", "r", "w", "i", "s", "e", " ", "t", "h", "e", " ", "a", "n", "s",
      "w", "e", "r", " ", "i", "s", " ", "n", "u", "l", "l", ".">>
  }

FenceOpeners ==
  {
    <<Backtick, Backtick, Backtick, "j", "s", "o", "n", "\n">>,
    <<Backtick, Backtick, Backtick, "\n">>,
    <<Backtick, Backtick, Backtick, "j", "s", "o", "n", " ">>
  }

FenceClosers ==
  {
    <<"\n", Backtick, Backtick, Backtick>>,
    <<Backtick, Backtick, Backtick>>
  }

PlainTexts ==
  {
    <<"n", "u", "l", "l">>,
    <<" ", "N", "U", "L", "L", "\n">>,
    <<"N", "u", "l", "l">>,
    <<Backtick, "n", "u", "l", "l", Backtick, ".">>,
    <<>>,
    <<"n", "o", "t", "h", "i", "n", "g">>,
    <<"I", " ", "a", "m", " ", "s", "o", "r", "r", "y", ",", " ", "I", " ", "c", "a", "n", "n",
      "o", "t", " ", "f", "i", "n", "d", " ", "m", "a", "t", "c", "h", "e", "s", ".">>,
    <<"I", " ", "C", "A", "N", "N", "O", "T", " ", "d", "o", " ", "t", "h", "a", "t">>,
    <<"T", "h", "e", " ", "r", "e", "s", "p", "o", "n", "s", "e", " ", "w", "i", "l", "l", " ",
      "b", "e", " ", Backtick, "n", "u", "l", "l", Backtick>>,
    <<"{", "\"", "a", "\"", ":", " ">>,
    <<"{", "\"", "a", "\"", ":", " ", "1", "}", " ", "a", "n", "d", " ", "m", "o", "r", "e">>,
    <<"[", "1", ",", " ", "2", ",", "]">>,
    <<"R", "e", "s", "u", "l", "t", ":", " ", "{", "\"", "a", "\"", ":", " ", "1", "}">>,
    <<"U", "n", "a", "b", "l", "e", " ", "t", "o", " ", "f", "i", "n", "d", " ", "o", "d", "d",
      "s", ",", " ", "s", "o", ":", " ", "{", "\"", "a", "\"", ":", " ", "1", "}">>,
    <<"{", "\"", "a", "\"", ":", " ", "1", ",", " ", "\"", "a", "\"", ":", " ", "2", "}">>,
    <<" ", " ", "{", "\"", "s", "c", "o", "r", "e", "\"", ":", " ", "\"", "2", "-", "1", "\"", " ",
      "t", "a", "p", "p", "e", "d", " ", "f", "r", "o", "m", " ", "s", "e", "a", "r", "c", "h",
      " ", "r", "e", "s", "u", "l", "t", " ", "[", "1", ",", " ", "2", "]", "}", " ", " ">>,
    <<"[", "{", "\"", "d", "\"", ":", " ", "\"", "Z", "\"", " ", "x", " ", "y", ":", " ", "1", "}",
      "]">>,
    <<"{", "\"", "n", "o", "t", "e", "\"", ":", " ", "\"", "a", " ", "c", "h", "a", "l", "l", "e",
      "n", "g", "i", "n", "g", " ", "t", "i", "e", "\"", "}">>,
    <<"4", "2">>,
    <<"\"", "t", "e", "x", "t", "\"">>,
    <<Backtick, Backtick, Backtick, "j", "s", "o", "n", "\n", Backtick, Backtick, Backtick>>,
    <<Backtick, Backtick, Backtick, "j", "s", "o", "n", "\n", "{", "\"", "a", "\"", ":", " ", "\n",
      Backtick, Backtick, Backtick>>
  }

ParseInputs ==
  /\ parseOutcome = Pending
  /\ \/ /\ parseInput \in {JSNull, JSUndefined, SomeObject, SomeNumber}
        /\ parseSample = NoSample
     \/ /\ parseInput \in {JSStr(t) : t \in PlainTexts \cup {j.text : j \in JsonSamples}}
        /\ parseSample = NoSample
     \/ \E before \in ProseBefore, open \in FenceOpeners, json \in JsonSamples,
           close \in FenceClosers, after \in ProseAfter :
          /\ parseInput = JSStr(before \o open \o json.text \o close \o after)
          /\ parseSample = json

Parse ==
  /\ parseOutcome = Pending
  /\ parseOutcome' = parseJsonResponse(parseInput)
  /\ UNCHANGED <<parseInput, parseSample>>

IdleParse == parseInput = JSNull /\ parseSample = NoSample /\ parseOutcome = Pending

(***************************************************************************)
(* The Accumulator page's loadTips (pages/Accumulator.tsx) over two fetch  *)
(* operations, with the time since the pending request was sent.           *)
(***************************************************************************)
VARIABLES
  page   \* loadTips' position and the page's state

pageVars == <<page>>

REQUEST_TIMEOUT == 30000

\* the operations' cache keys, as keys of the modelled store
StrategySetsKey == 1
FootballPageKey == 3

\* pc: where loadTips stands; elapsed: milliseconds since generateContent was
\* called; responses: how often the endpoint has answered (resolved or rejected)
Page(pc, loading, pageError, isFetchingFallback, forceRefresh, elapsed, responses, loads) ==
  [pc |-> pc, loading |-> loading, error |-> pageError,
   isFetchingFallback |-> isFetchingFallback, forceRefresh |-> forceRefresh,
   elapsed |-> elapsed, responses |-> responses, loads |-> loads]

NoPage == Page("idle", TRUE, JSNull, FALSE, FALSE, 0, 0, 0)

ERROR_TIPS == "Failed to fetch accumulator tips. Please try again later."

\* Mutant of TimedOut: the pending request is given up after REQUEST_TIMEOUT.
TimedOutAtRequestTimeout(elapsed) == elapsed >= REQUEST_TIMEOUT

\* whether the pending generateContent call is given up after elapsed
\* milliseconds: the call is awaited bare, nothing reads REQUEST_TIMEOUT
TimedOut(elapsed) == FALSE

\* loadTips(forceRefresh) up to its first await
loadTips(forceRefresh) ==
  /\ page.pc \in {"idle", "done"}
  /\ page.loads < MaxLoads
  /\ fetchStart(StrategySetsKey, forceRefresh)
  /\ page' = Page("awaitStrategySets", TRUE, JSNull, page.isFetchingFallback,
                  forceRefresh, 0, page.responses, page.loads + 1)

\* the endpoint answers the pending request with a reply that parses to parsedData
endpointResolves(parsedData, outcome, order) ==
  /\ page.pc \in {"awaitStrategySets", "awaitFallback"}
  /\ fetchResponse(parsedData, outcome, order)
  /\ page' = [page EXCEPT !.responses = @ + 1]

\* the endpoint answers the pending request with a failure
endpointRejects ==
  /\ page.pc \in {"awaitStrategySets", "awaitFallback"}
  /\ fetchFailure
  /\ page' = [page EXCEPT !.responses = @ + 1]

\* time passes while the request is pending
requestPending ==
  /\ page.pc \in {"awaitStrategySets", "awaitFallback"}
  /\ fetch.state = "awaiting"
  /\ page.elapsed < MaxElapsed
  /\ page' = [page EXCEPT !.elapsed = @ + ElapsedStep]
  /\ fetch' = IF TimedOut(page.elapsed + ElapsedStep)
              THEN Fetch("rejected", fetch.key, fetch.aiCalls, JSNull)
              ELSE fetch
  /\ UNCHANGED cacheVars

\* loadTips after fetchAccumulatorStrategySets settled; someTip: whether one
\* of the strategy sets' tips is not null
loadTipsStrategySets(someTip) ==
  /\ page.pc = "awaitStrategySets"
  /\ fetch.state \in {"resolved", "rejected"}
  /\ IF fetch.state = "rejected"
     THEN /\ page' = [page EXCEPT !.pc = "done", !.error = JSStr(ERROR_TIPS),
                                  !.loading = FALSE]
          /\ UNCHANGED <<fetchVars, cacheVars>>
     ELSE IF fetch.result # JSNull /\ someTip
     THEN /\ page' = [page EXCEPT !.pc = "done", !.loading = FALSE]
          /\ UNCHANGED <<fetchVars, cacheVars>>
     ELSE /\ fetchStart(FootballPageKey, page.forceRefresh)
          /\ page' = [page EXCEPT !.pc = "awaitFallback", !.isFetchingFallback = TRUE,
                                  !.elapsed = 0]

\* Mutant of loadTipsFallback: the inner finally block is missing.
loadTipsFallbackNoFinally ==
  /\ page.pc = "awaitFallback"
  /\ fetch.state \in {"resolved", "rejected"}
  /\ page' = [page EXCEPT !.pc = "done", !.loading = FALSE]
  /\ UNCHANGED <<fetchVars, cacheVars>>

\* loadTips after fetchFootballPageData settled
loadTipsFallback ==
  /\ page.pc = "awaitFallback"
  /\ fetch.state \in {"resolved", "rejected"}
  /\ page' = [page EXCEPT !.pc = "done", !.isFetchingFallback = FALSE,
                          !.loading = FALSE]
  /\ UNCHANGED <<fetchVars, cacheVars>>

IdlePage == page = NoPage

(***************************************************************************)
(* The cache keys of the fetch operations of leagues and sports            *)
(* (fetchAllLeaguesData, fetchLeagueData, fetchSportPredictions,           *)
(* fetchWeeklyFootballGames) and what a non-forced fetch finds under them. *)
(***************************************************************************)
VARIABLES
  keyStore,   \* the cache: pairs of a key and the request whose reply is under it
  keyFetch    \* the fetch made last and what it returned

keyVars == <<keyStore, keyFetch>>

\* enum Sport
Sports ==
  {<<"F", "o", "o", "t", "b", "a", "l", "l">>,
   <<"B", "a", "s", "k", "e", "t", "b", "a", "l", "l">>,
   <<"T", "e", "n", "n", "i", "s">>,
   <<"T", "a", "b", "l", "e", " ", "T", "e", "n", "n", "i", "s">>,
   <<"I", "c", "e", " ", "H", "o", "c", "k", "e", "y">>,
   <<"V", "o", "l", "l", "e", "y", "b", "a", "l", "l">>,
   <<"H", "a", "n", "d", "b", "a", "l", "l">>,
   <<"A", "m", "e", "r", "i", "c", "a", "n", " ", "F", "o", "o", "t", "b", "a", "l", "l">>}

\* league names a page asks for
LeagueNames ==
  {<<"A", "l", "l">>,
   <<"S", "e", "r", "i", "e", " ", "A">>,
   <<"S", "e", "r", "i", "e", "-", "A">>,
   <<"S", "e", "r", "i", "e", "/", "A">>,
   <<"L", "a", " ", "L", "i", "g", "a">>}

\* s.replace(/[\s/]/g, '-')
RECURSIVE ReplaceSpacesAndSlashes(_)
ReplaceSpacesAndSlashes(s) ==
  IF s = <<>> THEN <<>>
  ELSE <<IF Head(s) \in Whitespace \cup {"/"} THEN "-" ELSE Head(s)>>
         \o ReplaceSpacesAndSlashes(Tail(s))

\* s.replace(/\s+/g, '')
RECURSIVE RemoveWhitespace(_)
RemoveWhitespace(s) ==
  IF s = <<>> THEN <<>>
  ELSE IF Head(s) \in Whitespace
       THEN RemoveWhitespace(SubSeq(s, Run(s, 1, Whitespace), Len(s)))
  ELSE <<Head(s)>> \o RemoveWhitespace(Tail(s))

AllLeaguesKey == <<"l", "e", "a", "g", "u", "e", "D", "a", "t", "a", "-", "A", "l", "l">>
WeeklyFootballGamesKey == 
  <<"w", "e", "e", "k", "l", "y", "F", "o", "o", "t", "b", "a", "l", "l", "G", "a", "m", "e", "s">>

\* `leagueData-${leagueName.replace(/[\s/]/g, '-')}`
leagueDataKey(leagueName) == <<"l", "e", "a", "g", "u", "e", "D", "a", "t", "a", "-">> \o ReplaceSpacesAndSlashes(leagueName)

\* `weekly${sport.replace(/\s+/g, '')}Games`
sportPredictionsKey(sport) == <<"w", "e", "e", "k", "l", "y">> \o RemoveWhitespace(sport) \o <<"G", "a", "m", "e", "s">>

\* what was asked of the endpoint: the operation and its argument
Request(op, arg) == [op |-> op, arg |-> arg]
NoArg == <<>>

KeyFetch(request, cacheKey, hit, data, n) ==
  [request |-> request, key |-> cacheKey, hit |-> hit, data |-> data, n |-> n]
NoKeyFetch == KeyFetch(Request("none", NoArg), <<>>, FALSE, Request("none", NoArg), 0)

\* The shape the four operations share: unless forceRefresh, the entry under
\* cacheKey is returned when there is one that has not expired (an expired one
\* is removed); otherwise the endpoint is asked, and its reply is stored under
\* cacheKey when it parsed.
CachedFetch(request, cacheKey, forceRefresh, fresh, parsed) ==
  LET under == {e \in keyStore : e.key = cacheKey}
      hit == ~forceRefresh /\ under # {} /\ fresh
      kept == IF forceRefresh THEN keyStore ELSE keyStore \ under
  IN  /\ keyFetch.n < MaxKeyFetches
      /\ IF hit
         THEN /\ keyFetch' = KeyFetch(request, cacheKey, TRUE, (CHOOSE e \in under : TRUE).data,
                                      keyFetch.n + 1)
              /\ UNCHANGED keyStore
         ELSE /\ keyFetch' = KeyFetch(request, cacheKey, FALSE, request, keyFetch.n + 1)
              /\ keyStore' = IF parsed
                             THEN (keyStore \ under) \cup {[key |-> cacheKey, data |-> request]}
                             ELSE kept

fetchAllLeaguesData(forceRefresh, fresh, parsed) ==
  CachedFetch(Request("fetchAllLeaguesData", NoArg), AllLeaguesKey, forceRefresh, fresh, parsed)

fetchLeagueData(leagueName, forceRefresh, fresh, parsed) ==
  CachedFetch(Request("fetchLeagueData", leagueName), leagueDataKey(leagueName),
              forceRefresh, fresh, parsed)

fetchSportPredictions(sport, forceRefresh, fresh, parsed) ==
  CachedFetch(Request("fetchSportPredictions", sport), sportPredictionsKey(sport),
              forceRefresh, fresh, parsed)

fetchWeeklyFootballGames(forceRefresh, fresh, parsed) ==
  CachedFetch(Request("fetchWeeklyFootballGames", NoArg), WeeklyFootballGamesKey,
              forceRefresh, fresh, parsed)

IdleKeys == keyStore = {} /\ keyFetch = NoKeyFetch

(***************************************************************************)
(* The anonymous session identifier (utils/session.ts): the module's       *)
(* variables and the two localStorage items behind them.                   *)
(***************************************************************************)
VARIABLES
  userId,            \* module variable: JSNull or an identifier
  sessionMetadata,   \* module variable: JSNull or the metadata
  storedUserId,      \* localStorage item 'ai-predictor-user-id'
  storedMetadata,    \* localStorage item 'ai-predictor-session-metadata'
  uuidCount,         \* how many identifiers uuidv4 has given out
  sessionClock,      \* new Date(), advancing with the calls
  sessionLog         \* the calls so far: what they returned, whether storage threw

sessionVars ==
  <<userId, sessionMetadata, storedUserId, storedMetadata, uuidCount, sessionClock, sessionLog>>

\* the n-th identifier uuidv4 gives out; a stored string that is no UUID
Uuid(n) == [tag |-> "string", valid |-> TRUE, n |-> n]
NotAUuid == [tag |-> "string", valid |-> FALSE, n |-> 0]

\* uuidRegex.test(uuid)
isValidUUID(uuid) == uuid.valid

Metadata(createdAt, lastAccessed) == [createdAt |-> createdAt, lastAccessed |-> lastAccessed]

\* getSessionMetadata(): the module variable, else the stored item (which
\* becomes the module variable), else a default
getSessionMetadata(getOk) ==
  IF sessionMetadata # JSNull THEN sessionMetadata
  ELSE IF getOk /\ storedMetadata # JSNull THEN storedMetadata
  ELSE Metadata(sessionClock, sessionClock)

initializeSessionMetadata(isNewSession, getOk) ==
  IF isNewSession THEN Metadata(sessionClock, sessionClock)
  ELSE [getSessionMetadata(getOk) EXCEPT !.lastAccessed = sessionClock]

\* saveSessionMetadata(metadata): the module variable is set before setItem
saveSessionMetadata(metadata, setOk) ==
  /\ sessionMetadata' = metadata
  /\ storedMetadata' = IF setOk THEN metadata ELSE storedMetadata

SessionLogged(ret, fresh, threw) ==
  [op |-> "get", ret |-> ret, fresh |-> fresh,
   returned |-> sessionLog.returned \cup {ret},
   threw |-> sessionLog.threw \/ threw]

\* Mutant of NeedsNewId: the stored identifier is never reused.
NeedsNewIdAlways(stored) == TRUE

\* !storedUserId || !isValidUUID(storedUserId)
NeedsNewId(stored) == stored = JSNull \/ ~isValidUUID(stored)

\* the catch block: a temporary identifier is returned; the block names the
\* try block's variables, so whether userId keeps the identifier is open
SessionFallback(kept) ==
  /\ userId' = IF kept THEN Uuid(uuidCount + 1) ELSE JSNull
  /\ uuidCount' = uuidCount + 1
  /\ sessionLog' = SessionLogged(Uuid(uuidCount + 1), FALSE, TRUE)
  /\ UNCHANGED <<sessionMetadata, storedUserId, storedMetadata>>

\* getSessionUserId(); getOk, setOk, metaGetOk, metaSetOk: whether the
\* localStorage calls it makes go through (the two metadata functions catch
\* what their own calls throw)
getSessionUserId(getOk, setOk, metaGetOk, metaSetOk, kept) ==
  /\ sessionClock < MaxSessionClock
  /\ uuidCount < MaxUuids
  /\ sessionClock' = sessionClock + 1
  /\ IF userId # JSNull
     THEN /\ sessionLog' = SessionLogged(userId, FALSE, FALSE)
          /\ UNCHANGED <<userId, sessionMetadata, storedUserId, storedMetadata, uuidCount>>
     ELSE IF ~getOk \/ (NeedsNewId(storedUserId) /\ ~setOk)
     THEN SessionFallback(kept)
     ELSE LET isNewSession == NeedsNewId(storedUserId)
              id == IF isNewSession THEN Uuid(uuidCount + 1) ELSE storedUserId
          IN  /\ storedUserId' = id
              /\ uuidCount' = IF isNewSession THEN uuidCount + 1 ELSE uuidCount
              /\ userId' = id
              /\ saveSessionMetadata(initializeSessionMetadata(isNewSession, metaGetOk), metaSetOk)
              /\ sessionLog' = SessionLogged(id, isNewSession, FALSE)

\* clearSession(); firstOk, secondOk: whether the two removeItem calls go through
clearSession(firstOk, secondOk) ==
  /\ storedUserId' = IF firstOk THEN JSNull ELSE storedUserId
  /\ storedMetadata' = IF firstOk /\ secondOk THEN JSNull ELSE storedMetadata
  /\ userId' = IF firstOk /\ secondOk THEN JSNull ELSE userId
  /\ sessionMetadata' = IF firstOk /\ secondOk THEN JSNull ELSE sessionMetadata
  /\ sessionLog' = [op |-> "clear", ret |-> JSNull, fresh |-> FALSE, returned |-> {},
                    threw |-> sessionLog.threw \/ ~firstOk \/ ~secondOk]
  /\ UNCHANGED <<uuidCount, sessionClock>>

\* the page is loaded again: the module starts over, localStorage stays
reloadPage ==
  /\ userId # JSNull
  /\ userId' = JSNull
  /\ sessionMetadata' = JSNull
  /\ sessionLog' = [sessionLog EXCEPT !.op = "reload"]
  /\ UNCHANGED <<storedUserId, storedMetadata, uuidCount, sessionClock>>

NoSessionLog == [op |-> "none", ret |-> JSNull, fresh |-> FALSE, returned |-> {}, threw |-> FALSE]

\* a first visit, a return visit, a visit with a damaged item
SessionStarts ==
  /\ userId = JSNull /\ sessionMetadata = JSNull
  /\ storedUserId \in {JSNull, Uuid(1), NotAUuid}
  /\ storedMetadata = IF storedUserId = Uuid(1) THEN Metadata(0, 0) ELSE JSNull
  /\ uuidCount = 1 /\ sessionClock = 1
  /\ sessionLog = NoSessionLog

IdleSession ==
  /\ userId = JSNull /\ sessionMetadata = JSNull /\ storedUserId = JSNull
  /\ storedMetadata = JSNull /\ uuidCount = 1 /\ sessionClock = 1
  /\ sessionLog = NoSessionLog

(***************************************************************************)
(* withRetry: the retry loop around an operation, one step per await.      *)
(***************************************************************************)
VARIABLES
  retry   \* the withRetry call: its arguments, its place in the loop, its log

retryVars == <<retry>>

MAX_RETRIES_EXCEEDED == "Max retries exceeded"

\* maxRetries and delay as the caller may give them (the defaults are 3, 1000)
RetryCounts == 0..MaxRetriesArg
RetryDelays == 0..MaxDelayArg

\* the error raised by attempt k of the operation, the value it resolves with
AttemptError(k) == [error |-> k]
AttemptValue(k) == [value |-> k]

RetryCall(maxRetries, delay) ==
  [pc |-> "loop", maxRetries |-> maxRetries, delay |-> delay, attempt |-> 1,
   calls |-> <<>>,    \* per call of operation: the waits that ended before it
   waits |-> <<>>,    \* the timers set, in order
   result |-> JSNull]

NoRetry == [pc |-> "idle"]

\* Mutant of IsLastAttempt: the test is off by one.
IsLastAttemptOffByOne(attempt, maxRetries) == attempt = maxRetries + 1

\* attempt === maxRetries
IsLastAttempt(attempt, maxRetries) == attempt = maxRetries

\* Mutant of RetryWait: the same wait after every attempt.
RetryWaitFixed(delay, attempt) == delay

\* delay * attempt
RetryWait(delay, attempt) == delay * attempt

\* The loop test: attempt <= maxRetries enters the body and calls operation,
\* otherwise the statement after the loop throws.
retryLoop ==
  /\ retry.pc = "loop"
  /\ retry' = IF retry.attempt <= retry.maxRetries
              THEN [retry EXCEPT !.pc = "operation",
                                 !.calls = Append(@, Len(retry.waits))]
              ELSE [retry EXCEPT !.pc = "rejected",
                                 !.result = JSStr(MAX_RETRIES_EXCEEDED)]

\* operation() resolved: return await operation()
retryResolve ==
  /\ retry.pc = "operation"
  /\ retry' = [retry EXCEPT !.pc = "resolved", !.result = AttemptValue(retry.attempt)]

\* operation() rejected: the catch block
retryCatch ==
  /\ retry.pc = "operation"
  /\ retry' = IF IsLastAttempt(retry.attempt, retry.maxRetries)
              THEN [retry EXCEPT !.pc = "rejected", !.result = AttemptError(retry.attempt)]
              ELSE [retry EXCEPT !.pc = "sleep",
                                 !.waits = Append(@, RetryWait(retry.delay, retry.attempt))]

\* the timer fired: attempt++
retryTimer ==
  /\ retry.pc = "sleep"
  /\ retry' = [retry EXCEPT !.pc = "loop", !.attempt = @ + 1]

IdleRetry == retry = NoRetry

\* The state added to the model after its first parts.
(***************************************************************************)
(* The Dashboard's profit-and-loss effect (pages/Dashboard.tsx): what the  *)
(* mounted Dashboard holds beside the favorites context.                   *)
(***************************************************************************)
VARIABLES
  mounted,                   \* whether the Dashboard is mounted
  accumulatorResults,        \* state: the results by accumulator id
  processedStrategyUpdates   \* ref: the update keys `${strategyId}-${acc.id}` seen

dashVars == <<mounted, accumulatorResults, processedStrategyUpdates>>

NoResults == [x \in {} |-> 0]

\* `${strategyId}-${acc.id}`
UpdateKey(strategyId, accId) == <<strategyId, accId>>

\* the tracked accumulators the effect calls updateAIStrategyOutcome for, in
\* the order of the list: with a result, a strategy_id and an unseen key
DueUpdates ==
  SelectSeq(trackedAccumulators,
            LAMBDA acc : /\ acc.id \in DOMAIN accumulatorResults
                         /\ StrategyIdOf(acc) # JSUndefined
                         /\ UpdateKey(StrategyIdOf(acc), acc.id) \notin processedStrategyUpdates)

\* fetchResultsForAccumulators answered for accumulator id: setAccumulatorResults
resultsArrive(id, outcome) ==
  /\ mounted
  /\ id \in IdsOf(trackedAccumulators)
  /\ id \notin DOMAIN accumulatorResults
  /\ accumulatorResults' = Put(accumulatorResults, id, outcome)
  /\ UNCHANGED <<mounted, processedStrategyUpdates>>

\* the effect over trackedAccumulators, run when one update is due: the call
\* is made and its key added
pnlEffect ==
  /\ mounted
  /\ Len(DueUpdates) = 1
  /\ LET acc == DueUpdates[1]
         result == accumulatorResults[acc.id]
     IN  /\ updateAIStrategyOutcome(StrategyIdOf(acc).id, result.outcome, result.pnl)
         /\ processedStrategyUpdates' =
              processedStrategyUpdates \cup {UpdateKey(StrategyIdOf(acc), acc.id)}
  /\ UNCHANGED <<mounted, accumulatorResults>>

\* the user leaves the Dashboard
unmountDashboard ==
  /\ mounted
  /\ mounted' = FALSE
  /\ UNCHANGED <<accumulatorResults, processedStrategyUpdates>>

\* the user comes back: a new Dashboard with new state and a new ref
mountDashboard ==
  /\ ~mounted
  /\ mounted' = TRUE
  /\ accumulatorResults' = NoResults
  /\ processedStrategyUpdates' = {}

\* the page is loaded again: fetchData runs and no Dashboard is mounted yet
reloadApp ==
  /\ fetchData
  /\ mounted' = FALSE
  /\ accumulatorResults' = NoResults
  /\ processedStrategyUpdates' = {}

IdleDash == mounted = FALSE /\ accumulatorResults = NoResults /\ processedStrategyUpdates = {}

(***************************************************************************)
(* The 'scoresCache' entry and the two operations that write it            *)
(* (fetchScoresForPredictions, fetchSingleScore), within the entry's       *)
(* lifetime.                                                               *)
(***************************************************************************)
VARIABLES
  scoresCache,   \* the data of the 'scoresCache' entry: the results by prediction id
  batch,         \* the fetchScoresForPredictions call under way or ended last
  single,        \* the fetchSingleScore call under way or ended last
  scoreCalls     \* how many calls were started

scoreVars == <<scoresCache, batch, single, scoreCalls>>

ScoreIds == {"p1", "p2"}
\* PredictionResult: { finalScore, betOutcome }
PredictionResults == {[finalScore |-> "2 - 1", betOutcome |-> "Won"],
                      [finalScore |-> "0 - 1", betOutcome |-> "Lost"]}
NoResult == [finalScore |-> JSNull, betOutcome |-> JSNull]
NoScores == [x \in {} |-> NoResult]

\* { ...a, ...b }
Spread(a, b) == [id \in DOMAIN a \cup DOMAIN b |-> IF id \in DOMAIN b THEN b[id] ELSE a[id]]

NoBatch == [pc |-> "idle"]
NoSingle == [pc |-> "idle"]

\* fetchScoresForPredictions(predictions) up to its await: the cache is read,
\* and when every prediction has a cached score these are returned
batchStart(predictions) ==
  /\ batch.pc # "awaiting"
  /\ scoreCalls < MaxScoreCalls
  /\ scoreCalls' = scoreCalls + 1
  /\ LET cachedScores == scoresCache
         predictionsToFetch == {p \in predictions : p \notin DOMAIN cachedScores}
     IN  batch' = IF predictionsToFetch = {}
                  THEN [pc |-> "done", predictions |-> predictions, asked |-> FALSE,
                        cachedScores |-> cachedScores, written |-> {},
                        ret |-> [p \in predictions |-> cachedScores[p]]]
                  ELSE [pc |-> "awaiting", predictions |-> predictions, asked |-> TRUE,
                        cachedScores |-> cachedScores, predictionsToFetch |-> predictionsToFetch,
                        written |-> {}]
  /\ UNCHANGED <<scoresCache, single>>

\* the AI answered the batch with parsed (a score for some of the matches
\* asked about): the scores read before the await, overlaid with the new
\* ones, become the entry
batchResponse(parsed) ==
  /\ batch.pc = "awaiting"
  /\ DOMAIN parsed \subseteq batch.predictionsToFetch
  /\ LET newScores == [p \in batch.predictionsToFetch |->
                         IF p \in DOMAIN parsed THEN parsed[p] ELSE NoResult]
         updatedCache == Spread(batch.cachedScores, newScores)
     IN  /\ scoresCache' = updatedCache
         /\ batch' = [batch EXCEPT !.pc = "done",
                        !.ret = [p \in batch.predictions |-> updatedCache[p]]]
  /\ UNCHANGED <<single, scoreCalls>>

\* fetchSingleScore(prediction) up to its await
singleStart(id) ==
  /\ single.pc # "awaiting"
  /\ scoreCalls < MaxScoreCalls
  /\ scoreCalls' = scoreCalls + 1
  /\ single' = [pc |-> "awaiting", id |-> id]
  /\ UNCHANGED <<scoresCache, batch>>

\* the AI answered the single call with parsedData (null or a result): a
\* result is put into the entry as it is read now
singleResponse(parsedData) ==
  /\ single.pc = "awaiting"
  /\ single' = [pc |-> "done", id |-> single.id, ret |-> parsedData]
  /\ IF parsedData # JSNull
     THEN /\ scoresCache' = Spread(scoresCache, [p \in {single.id} |-> parsedData])
          /\ batch' = IF batch.pc = "awaiting"
                      THEN [batch EXCEPT !.written = @ \cup {single.id}]
                      ELSE batch
     ELSE UNCHANGED <<scoresCache, batch>>
  /\ UNCHANGED scoreCalls

IdleScore == scoresCache = NoScores /\ batch = NoBatch /\ single = NoSingle /\ scoreCalls = 0

(***************************************************************************)
(* useAsync: the hook that runs an asynchronous function and keeps its     *)
(* loading state.  Call number n resolves with the data n or rejects with  *)
(* the error n.                                                            *)
(***************************************************************************)
VARIABLES
  asyncState,   \* the hook's state: data, loading, error
  mountedRef,   \* mountedRef.current
  executions    \* the execute() calls made, in the order they started

asyncVars == <<asyncState, mountedRef, executions>>

AsyncState(data, loading, asyncError) ==
  [data |-> data, loading |-> loading, error |-> asyncError]

\* what call n resolves with, or the Error it rejects with
OutcomeOf(n) == [tag |-> "call", n |-> n]

\* execute() up to its await
execute ==
  /\ Len(executions) < MaxExecutes
  /\ asyncState' = [asyncState EXCEPT !.loading = TRUE, !.error = JSNull]
  /\ executions' = Append(executions, "pending")
  /\ UNCHANGED mountedRef

\* asyncFunction() of call n resolved: the state is set if still mounted
executeResolved(n) ==
  /\ executions[n] = "pending"
  /\ asyncState' = IF mountedRef THEN AsyncState(OutcomeOf(n), FALSE, JSNull) ELSE asyncState
  /\ executions' = [executions EXCEPT ![n] = "resolved"]
  /\ UNCHANGED mountedRef

\* asyncFunction() of call n rejected: the catch block
executeRejected(n) ==
  /\ executions[n] = "pending"
  /\ asyncState' = IF mountedRef
                   THEN [asyncState EXCEPT !.loading = FALSE, !.error = OutcomeOf(n)]
                   ELSE asyncState
  /\ executions' = [executions EXCEPT ![n] = "rejected"]
  /\ UNCHANGED mountedRef

\* the cleanup of the mount effect
unmountAsync ==
  /\ mountedRef
  /\ mountedRef' = FALSE
  /\ UNCHANGED <<asyncState, executions>>

IdleAsync ==
  /\ asyncState = AsyncState(JSNull, FALSE, JSNull)
  /\ mountedRef = TRUE
  /\ executions = <<>>

(***************************************************************************)
(* getMatchStatus and its result cache.  Times are in milliseconds.  A     *)
(* match date string is the time it parses to, or is not a date.           *)
(***************************************************************************)
VARIABLES
  matchStatusCache,   \* the Map from date strings to cached results
  statusNow,          \* the time of the clock
  statusCall          \* the call made last: its argument, time and result

statusVars == <<matchStatusCache, statusNow, statusCall>>

MATCH_STATUS_CACHE_DURATION == 60000
typicalMatchDurationMs == 9000000
MATCH_STATUS_CACHE_LIMIT == 100

\* the moments the calls are made at
StatusTimes == {1, 59999, 60000, 119998, 120000, 9060000, 9060001}
MatchDate(t) == [valid |-> TRUE, time |-> t]
InvalidDate == [valid |-> FALSE]
MatchDateStrings == {MatchDate(60000), InvalidDate}

StatusResult(status, text) == [status |-> status, text |-> text]
NoStatusCall == [made |-> FALSE]

\* the branches over currentTime, matchDate and matchEndTime
ComputedStatus(matchDate, currentTime) ==
  LET matchEndTime == matchDate.time + typicalMatchDurationMs
  IN  IF ~matchDate.valid THEN StatusResult("Upcoming", "Date TBD")
      ELSE IF currentTime > matchEndTime THEN StatusResult("Finished", "Finished")
      ELSE IF currentTime >= matchDate.time /\ currentTime <= matchEndTime
      THEN StatusResult("Live", "Live")
      ELSE StatusResult("Upcoming", "formattedDate")

\* cached && (now - cached.timestamp) < MATCH_STATUS_CACHE_DURATION
StatusCached(matchDateString) ==
  /\ matchDateString \in DOMAIN matchStatusCache
  /\ statusNow - matchStatusCache[matchDateString].timestamp < MATCH_STATUS_CACHE_DURATION

\* the Map after the set and the periodic clean-up
StatusCacheAfter(matchDateString, result) ==
  LET set == [k \in DOMAIN matchStatusCache \cup {matchDateString} |->
                IF k = matchDateString
                THEN [result |-> result, timestamp |-> statusNow]
                ELSE matchStatusCache[k]]
      cutoff == statusNow - MATCH_STATUS_CACHE_DURATION * 2
  IN  IF ~matchDateString.valid \/ Cardinality(DOMAIN set) <= MATCH_STATUS_CACHE_LIMIT
      THEN set
      ELSE [k \in {j \in DOMAIN set : ~(set[j].timestamp < cutoff)} |-> set[k]]

getMatchStatus(matchDateString) ==
  /\ IF StatusCached(matchDateString)
     THEN /\ statusCall' = [made |-> TRUE, arg |-> matchDateString, at |-> statusNow,
                            result |-> matchStatusCache[matchDateString].result,
                            fromCache |-> TRUE]
          /\ UNCHANGED matchStatusCache
     ELSE LET result == ComputedStatus(matchDateString, statusNow)
          IN  /\ statusCall' = [made |-> TRUE, arg |-> matchDateString, at |-> statusNow,
                                 result |-> result, fromCache |-> FALSE]
              /\ matchStatusCache' = StatusCacheAfter(matchDateString, result)
  /\ UNCHANGED statusNow

\* time passes to a later moment
statusTick(t) ==
  /\ t > statusNow
  /\ statusNow' = t
  /\ UNCHANGED <<matchStatusCache, statusCall>>

IdleStatus ==
  /\ matchStatusCache = <<>>
  /\ statusNow = 1
  /\ statusCall = NoStatusCall

(***************************************************************************)
(* The AI tip builder (AIGenerator): the selected bet types and the flag   *)
(* that leaves the markets to the AI.  The other fields of the builder's   *)
(* state (customNlp, numGames, successProbability, timeFrame) are set by   *)
(* loadState only and read by none of the operations below.                *)
(***************************************************************************)
VARIABLES
  selectedBetTypes,   \* the list of selected bet types
  aiSelectsMarkets,   \* whether the AI selects the markets
  savedStates,        \* the states getCurrentState() produced
  builderOp           \* the operation made last

builderVars == <<selectedBetTypes, aiSelectsMarkets, savedStates, builderOp>>

BetTypes == {"Home Win", "Over 2.5 Goals", "BTTS"}

includesBet(list, bet) == \E i \in 1..Len(list) : list[i] = bet
filterBet(list, bet) == SelectSeq(list, LAMBDA b : b # bet)

\* a JavaScript array is truthy also when it is empty: value || fallback
ArrayOr(value, fallback) == IF value \in Seq(BetTypes) THEN value ELSE fallback
BooleanOr(value, fallback) == IF value = TRUE THEN value ELSE fallback

handleAiSelectClick ==
  /\ aiSelectsMarkets' = TRUE
  /\ selectedBetTypes' = <<>>
  /\ builderOp' = "handleAiSelectClick"
  /\ UNCHANGED savedStates

\* Mutant of handleBetTypeClick: the last selected bet type can be removed.
handleBetTypeClickRemovesLast(bet) ==
  /\ aiSelectsMarkets' = FALSE
  /\ selectedBetTypes' =
       IF includesBet(selectedBetTypes, bet)
       THEN filterBet(selectedBetTypes, bet)
       ELSE Append(selectedBetTypes, bet)
  /\ builderOp' = "handleBetTypeClick"
  /\ UNCHANGED savedStates

handleBetTypeClick(bet) ==
  /\ aiSelectsMarkets' = FALSE
  /\ selectedBetTypes' =
       IF includesBet(selectedBetTypes, bet)
       THEN IF Len(selectedBetTypes) > 1
            THEN filterBet(selectedBetTypes, bet)
            ELSE selectedBetTypes
       ELSE Append(selectedBetTypes, bet)
  /\ builderOp' = "handleBetTypeClick"
  /\ UNCHANGED savedStates

getCurrentState ==
  /\ Cardinality(savedStates) < MaxSavedStates
  /\ savedStates' = savedStates \cup
       {[selectedBetTypes |-> selectedBetTypes, aiSelectsMarkets |-> aiSelectsMarkets]}
  /\ builderOp' = "getCurrentState"
  /\ UNCHANGED <<selectedBetTypes, aiSelectsMarkets>>

loadState(stateToLoad) ==
  /\ selectedBetTypes' = ArrayOr(stateToLoad.selectedBetTypes, <<"Home Win">>)
  /\ aiSelectsMarkets' = BooleanOr(stateToLoad.aiSelectsMarkets, FALSE)
  /\ builderOp' = "loadState"
  /\ UNCHANGED savedStates

IdleBuilder ==
  /\ selectedBetTypes = <<"Home Win", "Over 2.5 Goals">>
  /\ aiSelectsMarkets = FALSE
  /\ savedStates = {}
  /\ builderOp = "none"

moreVars == <<retryVars, parseVars, sessionVars, pageVars, keyVars>>
IdleMore == IdleRetry /\ IdleParse /\ IdleSession /\ IdlePage /\ IdleKeys

\* The variables of the parts modelled last, and each part's view of the others.
lateVars == <<dashVars, scoreVars, asyncVars, statusVars, builderVars>>
IdleLate == IdleDash /\ IdleScore /\ IdleAsync /\ IdleStatus /\ IdleBuilder
DashRest == UNCHANGED <<scoreVars, asyncVars, statusVars, builderVars>>
DashAlone == IdleScore /\ IdleAsync /\ IdleStatus /\ IdleBuilder
ScoreRest == UNCHANGED <<dashVars, asyncVars, statusVars, builderVars>>
ScoreAlone == IdleDash /\ IdleAsync /\ IdleStatus /\ IdleBuilder
AsyncRest == UNCHANGED <<dashVars, scoreVars, statusVars, builderVars>>
AsyncAlone == IdleDash /\ IdleScore /\ IdleStatus /\ IdleBuilder
StatusRest == UNCHANGED <<dashVars, scoreVars, asyncVars, builderVars>>
StatusAlone == IdleDash /\ IdleScore /\ IdleAsync /\ IdleBuilder
BuilderRest == UNCHANGED <<dashVars, scoreVars, asyncVars, statusVars>>
BuilderAlone == IdleDash /\ IdleScore /\ IdleAsync /\ IdleStatus

vars == <<favVars, cacheVars, clsVars, fetchVars, moreVars, lateVars>>

IdleContext == InitContext(0)
IdleCache ==
  /\ storage = EmptyTable /\ now = 1 /\ lastSet = [k \in Keys |-> 0]
  /\ cacheEvent = NoCacheEvent

\* What a step of the context, of the cache, of a fetch operation leaves alone.
ContextOnly == UNCHANGED <<cacheVars, clsVars, fetchVars, moreVars, lateVars>>
CacheOnly == UNCHANGED <<favVars, clsVars, fetchVars, moreVars, lateVars>>
FetchOnly == UNCHANGED <<favVars, clsVars, moreVars, lateVars>>

\* Every operation of the context, one store call at a time.
FavPredictions == {[id |-> "p1", matchDate |-> 2]}
FavAccumulators == {[id |-> "a1", games |-> <<1, 3>>]}
InitFav == InitContext(MaxInFlight) /\ IdleCache /\ IdleClassify /\ IdleFetch /\ IdleMore /\ IdleLate
NextFav ==
  \/ \E p \in FavPredictions, st \in Stakes : addPrediction(p, st) /\ ContextOnly
  \/ \E p \in FavPredictions : removePrediction(p.id) /\ ContextOnly
  \/ \E a \in FavAccumulators, st \in Stakes : addAccumulator(a, st, JSUndefined) /\ ContextOnly
  \/ \E a \in FavAccumulators : removeAccumulator(a.id) /\ ContextOnly
  \/ saveAIStrategy /\ ContextOnly
  \/ \E id \in StrategyIds : deleteAIStrategy(id) /\ ContextOnly
  \/ \E k \in 1..MaxStrategies : handleToggleArchive(k) /\ ContextOnly
  \/ \E id \in StrategyIds, o \in OutcomeArgs :
       updateAIStrategyOutcome(id, o.outcome, o.pnl) /\ ContextOnly
  \/ \E i \in Slots, e \in StoreErrors : StoreFail(i, e) /\ ContextOnly
  \/ \E i \in Slots : StoreApply(i) /\ ContextOnly
  \/ \E i \in Slots : RespondError(i) /\ ContextOnly
  \/ \E i \in Slots : RespondOk(i) /\ ContextOnly
SpecFav == InitFav /\ [][NextFav]_vars

\* The tracked lists, with overlapping store calls.
TrackedAccumulators == {[id |-> "a3", games |-> <<>>]}
InitTracked == InitContext(MaxInFlightTracked) /\ IdleCache /\ IdleClassify /\ IdleFetch /\ IdleMore /\ IdleLate
NextTracked ==
  \/ \E p \in Predictions, st \in Stakes : addPrediction(p, st) /\ ContextOnly
  \/ \E p \in Predictions : removePrediction(p.id) /\ ContextOnly
  \/ \E a \in TrackedAccumulators, st \in Stakes : addAccumulator(a, st, JSUndefined) /\ ContextOnly
  \/ \E a \in TrackedAccumulators : removeAccumulator(a.id) /\ ContextOnly
  \/ \E i \in Slots : StoreFail(i, ErrNoMessage) /\ ContextOnly
  \/ \E i \in Slots : StoreApply(i) /\ ContextOnly
  \/ \E i \in Slots : RespondError(i) /\ ContextOnly
  \/ \E i \in Slots : RespondOk(i) /\ ContextOnly
SpecTracked == InitTracked /\ [][NextTracked]_vars

\* The strategies, with overlapping store calls.
InitStrategies == InitContext(MaxInFlightStrategies) /\ IdleCache /\ IdleClassify /\ IdleFetch /\ IdleMore /\ IdleLate
NextStrategies ==
  \/ saveAIStrategy /\ ContextOnly
  \/ \E id \in StrategyIds : deleteAIStrategy(id) /\ ContextOnly
  \/ \E k \in 1..MaxStrategies : handleToggleArchive(k) /\ ContextOnly
  \/ \E id \in StrategyIds, o \in OutcomeArgs :
       updateAIStrategyOutcome(id, o.outcome, o.pnl) /\ ContextOnly
  \/ \E i \in Slots : StoreFail(i, ErrNoMessage) /\ ContextOnly
  \/ \E i \in Slots : StoreApply(i) /\ ContextOnly
  \/ \E i \in Slots : RespondError(i) /\ ContextOnly
  \/ \E i \in Slots : RespondOk(i) /\ ContextOnly
SpecStrategies == InitStrategies /\ [][NextStrategies]_vars

\* The cache with few entries, as time passes.
ExpiryTicks == {DEFAULT_DURATION_MS \div 2, DEFAULT_DURATION_MS \div 2 + 1}
GetKeys == {EmptyKey, 1}
InitCache == InitStorage({2}) /\ IdleContext /\ IdleClassify /\ IdleFetch /\ IdleMore /\ IdleLate
NextCache ==
  \/ \E key \in GetKeys : getCachedData(key) /\ CacheOnly
  \/ SetOps(FreshKeys \cap {3}) /\ CacheOnly
  \/ \E d \in ExpiryTicks : Tick(d, MaxTime) /\ CacheOnly
SpecCache == InitCache /\ [][NextCache]_vars

\* The cache around its cleanup threshold.
InitEvict == InitStorage({39, 40}) /\ IdleContext /\ IdleClassify /\ IdleFetch /\ IdleMore /\ IdleLate
NextEvict ==
  \/ \E key \in GetKeys : getCachedData(key) /\ CacheOnly
  \/ SetOps(FreshKeys) /\ CacheOnly
  \/ Tick(1, MaxEvictTime) /\ CacheOnly
SpecEvict == InitEvict /\ [][NextEvict]_vars

\* handleSupabaseError applied to each message.
NextClassify == Classify /\ UNCHANGED <<favVars, cacheVars, fetchVars, moreVars, lateVars>>
InitClassify == ClassifyInputs /\ IdleContext /\ IdleCache /\ IdleFetch /\ IdleMore /\ IdleLate
SpecClassify == InitClassify /\ [][NextClassify]_vars

\* Fetch operations over the cache, one at a time.
FetchKeys == {1, 3}
ParsedResponses == {JSNull, JSStr("a"), JSStr("b")}
InitFetch == InitStorage({2}) /\ IdleContext /\ IdleClassify /\ IdleFetch /\ IdleMore /\ IdleLate
NextFetch ==
  \/ \E key \in FetchKeys, forceRefresh \in BOOLEAN :
       fetchStart(key, forceRefresh) /\ FetchOnly
  \/ \E parsedData \in ParsedResponses,
        outcome \in {"stored", "tooLarge", "quota"}, order \in KeyOrders :
       fetchResponse(parsedData, outcome, order) /\ FetchOnly
  \/ fetchFailure /\ FetchOnly
  \/ \E d \in ExpiryTicks : Tick(d, MaxTime) /\ UNCHANGED fetchVars /\ FetchOnly
SpecFetch == InitFetch /\ [][NextFetch]_vars

\* withRetry called with each pair of arguments.
FirstOnly == UNCHANGED <<favVars, cacheVars, clsVars, fetchVars, lateVars>>
IdleFirst == IdleContext /\ IdleCache /\ IdleClassify /\ IdleFetch /\ IdleLate
\* what a step of a later part leaves alone of the earlier ones
EarlierOnly == UNCHANGED <<favVars, cacheVars, clsVars, fetchVars, moreVars>>
IdleEarlier == IdleContext /\ IdleCache /\ IdleClassify /\ IdleFetch /\ IdleMore
InitRetry ==
  /\ \E maxRetries \in RetryCounts, delay \in RetryDelays : retry = RetryCall(maxRetries, delay)
  /\ IdleFirst /\ IdleParse /\ IdleSession /\ IdlePage /\ IdleKeys
NextRetry ==
  \/ retryLoop /\ FirstOnly /\ UNCHANGED <<parseVars, sessionVars, pageVars, keyVars>>
  \/ retryResolve /\ FirstOnly /\ UNCHANGED <<parseVars, sessionVars, pageVars, keyVars>>
  \/ retryCatch /\ FirstOnly /\ UNCHANGED <<parseVars, sessionVars, pageVars, keyVars>>
  \/ retryTimer /\ FirstOnly /\ UNCHANGED <<parseVars, sessionVars, pageVars, keyVars>>
SpecRetry == InitRetry /\ [][NextRetry]_vars

\* parseJsonResponse applied to each input.
InitParse == ParseInputs /\ IdleFirst /\ IdleRetry /\ IdleSession /\ IdlePage /\ IdleKeys
NextParse == Parse /\ FirstOnly /\ UNCHANGED <<retryVars, sessionVars, pageVars, keyVars>>
SpecParse == InitParse /\ [][NextParse]_vars

\* The session identifier over visits, with localStorage calls that may throw.
SessionOnly == FirstOnly /\ UNCHANGED <<retryVars, parseVars, pageVars, keyVars>>
InitSession == SessionStarts /\ IdleFirst /\ IdleRetry /\ IdleParse /\ IdlePage /\ IdleKeys
NextSession ==
  \/ \E getOk, setOk, metaGetOk, metaSetOk, kept \in BOOLEAN :
       getSessionUserId(getOk, setOk, metaGetOk, metaSetOk, kept) /\ SessionOnly
  \/ \E firstOk, secondOk \in BOOLEAN : clearSession(firstOk, secondOk) /\ SessionOnly
  \/ reloadPage /\ SessionOnly
SpecSession == InitSession /\ [][NextSession]_vars

\* The Accumulator page loading its tips, the endpoint answering or not.
PageOnly == UNCHANGED <<favVars, clsVars, retryVars, parseVars, sessionVars, keyVars, lateVars>>
InitPage ==
  InitStorage({2}) /\ IdleContext /\ IdleClassify /\ IdleFetch /\ IdleRetry
    /\ IdleParse /\ IdleSession /\ IdlePage /\ IdleKeys /\ IdleLate
NextPage ==
  \/ \E forceRefresh \in BOOLEAN : loadTips(forceRefresh) /\ PageOnly
  \/ \E parsedData \in ParsedResponses,
        outcome \in {"stored", "tooLarge", "quota"}, order \in KeyOrders :
       endpointResolves(parsedData, outcome, order) /\ PageOnly
  \/ endpointRejects /\ PageOnly
  \/ requestPending /\ PageOnly
  \/ \E someTip \in BOOLEAN : loadTipsStrategySets(someTip) /\ PageOnly
  \/ loadTipsFallback /\ PageOnly
SpecPage == InitPage /\ [][NextPage]_vars

\* The page when every AI request is answered in the end and loadTips goes on
\* after each await.
EndpointAnswers ==
  /\ \/ \E parsedData \in ParsedResponses,
           outcome \in {"stored", "tooLarge", "quota"}, order \in KeyOrders :
          endpointResolves(parsedData, outcome, order)
     \/ endpointRejects
  /\ PageOnly
LoadTipsContinues ==
  /\ \/ \E someTip \in BOOLEAN : loadTipsStrategySets(someTip)
     \/ loadTipsFallback
  /\ PageOnly
SpecPageAnswered ==
  InitPage /\ [][NextPage]_vars /\ WF_vars(EndpointAnswers) /\ WF_vars(LoadTipsContinues)

\* The league and sport fetch operations in any order over one cache.
KeysOnly == FirstOnly /\ UNCHANGED <<retryVars, parseVars, sessionVars, pageVars>>
InitKeys == IdleKeys /\ IdleFirst /\ IdleRetry /\ IdleParse /\ IdleSession /\ IdlePage
NextKeys ==
  \/ \E forceRefresh, fresh, parsed \in BOOLEAN :
       fetchAllLeaguesData(forceRefresh, fresh, parsed) /\ KeysOnly
  \/ \E leagueName \in LeagueNames, forceRefresh, fresh, parsed \in BOOLEAN :
       fetchLeagueData(leagueName, forceRefresh, fresh, parsed) /\ KeysOnly
  \/ \E sport \in Sports, forceRefresh, fresh, parsed \in BOOLEAN :
       fetchSportPredictions(sport, forceRefresh, fresh, parsed) /\ KeysOnly
  \/ \E forceRefresh, fresh, parsed \in BOOLEAN :
       fetchWeeklyFootballGames(forceRefresh, fresh, parsed) /\ KeysOnly
SpecKeys == InitKeys /\ [][NextKeys]_vars

\* Accumulators tracked for a saved strategy, and the page loaded again.
ReloadAccumulators == {[id |-> "a1", games |-> <<1, 3>>], [id |-> "a2", games |-> <<2>>]}
InitReload == InitContext(MaxInFlight) /\ IdleCache /\ IdleClassify /\ IdleFetch /\ IdleMore /\ IdleLate
NextReload ==
  \/ saveAIStrategy /\ ContextOnly
  \/ \E a \in ReloadAccumulators, st \in Stakes,
        sid \in {JSUndefined} \cup {StrategyRef(aiStrategies[k].id) : k \in 1..Len(aiStrategies)} :
       addAccumulator(a, st, sid) /\ ContextOnly
  \/ \E a \in ReloadAccumulators : removeAccumulator(a.id) /\ ContextOnly
  \/ \E i \in Slots : StoreFail(i, ErrNoMessage) /\ ContextOnly
  \/ \E i \in Slots : StoreApply(i) /\ ContextOnly
  \/ \E i \in Slots : RespondError(i) /\ ContextOnly
  \/ \E i \in Slots : RespondOk(i) /\ ContextOnly
  \/ fetchData /\ ContextOnly
SpecReload == InitReload /\ [][NextReload]_vars

\* One accumulator tracked for a saved strategy, settled, on a Dashboard that
\* is left, come back to and loaded again.
DashAccumulators == {[id |-> "a1", games |-> <<1, 3>>]}
DashOnly == UNCHANGED <<cacheVars, clsVars, fetchVars, moreVars>> /\ DashRest
InitDashboard == InitContext(MaxInFlight) /\ IdleCache /\ IdleClassify /\ IdleFetch /\ IdleMore /\ IdleLate
NextDashboard ==
  \/ saveAIStrategy /\ ContextOnly
  \/ \E a \in DashAccumulators, st \in Stakes,
        sid \in {JSUndefined} \cup {StrategyRef(aiStrategies[k].id) : k \in 1..Len(aiStrategies)} :
       addAccumulator(a, st, sid) /\ ContextOnly
  \/ \E i \in Slots : StoreFail(i, ErrNoMessage) /\ ContextOnly
  \/ \E i \in Slots : StoreApply(i) /\ ContextOnly
  \/ \E i \in Slots : RespondError(i) /\ ContextOnly
  \/ \E i \in Slots : RespondOk(i) /\ ContextOnly
  \/ reloadApp /\ DashOnly
  \/ mountDashboard /\ UNCHANGED favVars /\ DashOnly
  \/ unmountDashboard /\ UNCHANGED favVars /\ DashOnly
  \/ \E a \in DashAccumulators, o \in OutcomeArgs :
       resultsArrive(a.id, o) /\ UNCHANGED favVars /\ DashOnly
  \/ pnlEffect /\ DashOnly
SpecDashboard == InitDashboard /\ [][NextDashboard]_vars

\* Adds and removes that overlap, every store call succeeding.
InitOverlap == InitContext(MaxInFlightTracked) /\ IdleCache /\ IdleClassify /\ IdleFetch /\ IdleMore /\ IdleLate
NextOverlap ==
  \/ \E p \in FavPredictions, st \in Stakes : addPrediction(p, st) /\ ContextOnly
  \/ \E p \in FavPredictions : removePrediction(p.id) /\ ContextOnly
  \/ \E a \in FavAccumulators, st \in Stakes : addAccumulator(a, st, JSUndefined) /\ ContextOnly
  \/ \E a \in FavAccumulators : removeAccumulator(a.id) /\ ContextOnly
  \/ \E i \in Slots : StoreApply(i) /\ ContextOnly
  \/ \E i \in Slots : RespondOk(i) /\ ContextOnly
SpecOverlap == InitOverlap /\ [][NextOverlap]_vars

\* Batch and single score fetches that overlap.
ScoresOnly == EarlierOnly /\ ScoreRest
InitScores == IdleScore /\ IdleEarlier /\ ScoreAlone
NextScores ==
  \/ \E predictions \in SUBSET ScoreIds \ {{}} : batchStart(predictions) /\ ScoresOnly
  \/ \E answered \in SUBSET ScoreIds, r \in PredictionResults :
       batchResponse([p \in answered |-> r]) /\ ScoresOnly
  \/ \E id \in ScoreIds : singleStart(id) /\ ScoresOnly
  \/ \E parsedData \in PredictionResults \cup {JSNull} : singleResponse(parsedData) /\ ScoresOnly
SpecScores == InitScores /\ [][NextScores]_vars

\* The cache filled from empty by its own operations.
FillKeys == FreshKeys \cup {1, 2}
InitFill == IdleCache /\ IdleContext /\ IdleClassify /\ IdleFetch /\ IdleMore /\ IdleLate
NextFill ==
  \/ getCachedData(1) /\ CacheOnly
  \/ \E key \in FillKeys, order \in KeyOrders :
       \E cleaned \in {cleanupCache(storage, order)} :
         setCachedData(key, JSStr("a"), "stored", order, cleaned) /\ CacheOnly
SpecFill == InitFill /\ [][NextFill]_vars

\* Tracked bets added and then cleared all at once, each delete failing or not.
ClearErrors == {JSNull, ErrNoMessage}
InitClear == InitContext(MaxInFlight) /\ IdleCache /\ IdleClassify /\ IdleFetch /\ IdleMore /\ IdleLate
NextClear ==
  \/ \E p \in FavPredictions, st \in Stakes : addPrediction(p, st) /\ ContextOnly
  \/ \E a \in FavAccumulators, st \in Stakes : addAccumulator(a, st, JSUndefined) /\ ContextOnly
  \/ \E i \in Slots : StoreApply(i) /\ ContextOnly
  \/ \E i \in Slots : RespondOk(i) /\ ContextOnly
  \/ clearAllTrackedBets /\ ContextOnly
  \/ \E i \in Slots, predError, accError \in ClearErrors :
       StoreClear(i, predError, accError) /\ ContextOnly
  \/ \E i \in Slots : RespondClear(i) /\ ContextOnly
SpecClear == InitClear /\ [][NextClear]_vars

\* execute() called up to MaxExecutes times, the calls settling in any order.
AsyncOnly == EarlierOnly /\ AsyncRest
InitAsync == IdleAsync /\ IdleEarlier /\ AsyncAlone
NextAsync ==
  \/ execute /\ AsyncOnly
  \/ \E n \in 1..MaxExecutes : n <= Len(executions) /\ executeResolved(n) /\ AsyncOnly
  \/ \E n \in 1..MaxExecutes : n <= Len(executions) /\ executeRejected(n) /\ AsyncOnly
  \/ unmountAsync /\ AsyncOnly
SpecAsync == InitAsync /\ [][NextAsync]_vars

\* getMatchStatus called at the moments of StatusTimes.
StatusOnly == EarlierOnly /\ StatusRest
InitStatus == IdleStatus /\ IdleEarlier /\ StatusAlone
NextStatus ==
  \/ \E matchDateString \in MatchDateStrings : getMatchStatus(matchDateString) /\ StatusOnly
  \/ \E t \in StatusTimes : statusTick(t) /\ StatusOnly
SpecStatus == InitStatus /\ [][NextStatus]_vars

\* The builder's operations in any order.
BuilderOnly == EarlierOnly /\ BuilderRest
InitBuilder == IdleBuilder /\ IdleEarlier /\ BuilderAlone
NextBuilder ==
  \/ handleAiSelectClick /\ BuilderOnly
  \/ \E bet \in BetTypes : handleBetTypeClick(bet) /\ BuilderOnly
  \/ getCurrentState /\ BuilderOnly
  \/ \E stateToLoad \in savedStates : loadState(stateToLoad) /\ BuilderOnly
SpecBuilder == InitBuilder /\ [][NextBuilder]_vars

(***************************************************************************)
(* Properties of the favorites context.                                    *)
(***************************************************************************)
LocalLists == <<trackedPredictions, trackedAccumulators, aiStrategies>>
WriteOps == {"addPrediction", "removePrediction", "addAccumulator", "removeAccumulator",
             "saveAIStrategy", "deleteAIStrategy", "updateAIStrategy"}

\* slot i holds a response that this step hands to its operation
Handled(i) == requests[i] # NoReq /\ requests[i].phase = "done" /\ requests'[i] = NoReq

\* C1: when the store call of a write operation returns an error, the three
\* local lists stay as they were and the context error becomes non-null; a
\* local list changes only in a step that handles a successful store call.
C1_FailedWriteKeepsLists ==
  [][ /\ \A i \in Slots :
           (Handled(i) /\ ~requests[i].ok /\ requests[i].op \in WriteOps)
              => (LocalLists' = LocalLists /\ error' # JSNull)
      /\ (LocalLists' # LocalLists)
           => \E i \in Slots : Handled(i) /\ requests[i].ok /\ requests[i].op \in WriteOps
    ]_vars

C1_Witness ==
  /\ lastEvent # NoEvent /\ ~lastEvent.ok
  /\ error # JSNull
  /\ trackedPredictions # <<>>
  /\ aiStrategies # <<>>

NoDuplicateIds(seq) == \A j, k \in 1..Len(seq) : seq[j].id = seq[k].id => j = k

\* C6: the tracked lists never hold two entries with one item id, and a
\* successful add leaves exactly the entry it was called with under that id
\* (an entry already tracked under the id is replaced, the new stake wins).
C6_OneEntryPerId ==
  /\ [](NoDuplicateIds(trackedPredictions) /\ NoDuplicateIds(trackedAccumulators))
  /\ [][ \A i \in Slots :
           (Handled(i) /\ requests[i].ok /\ requests[i].op \in {"addPrediction", "addAccumulator"})
             => LET item == requests[i].arg.item
                    list == IF requests[i].op = "addPrediction"
                            THEN trackedPredictions' ELSE trackedAccumulators'
                IN  /\ \E k \in 1..Len(list) : list[k] = item
                    /\ \A k \in 1..Len(list) : list[k].id = item.id => list[k] = item
       ]_vars

C6_Witness ==
  /\ lastEvent = [op |-> "addPrediction", ok |-> TRUE, replaced |-> TRUE]
  /\ \E k \in 1..Len(trackedPredictions) :
        trackedPredictions[k].id = "p1" /\ trackedPredictions[k].virtualStake = 2
  /\ Len(trackedPredictions) = 2

\* C7: once no store call is in flight, every stored strategy's wins, losses
\* and pnl have grown (from the 0 they are saved with) by the successful
\* outcome calls made for it: no update is lost.
C7_NoOutcomeLost ==
  Quiescent =>
    \A id \in DOMAIN dbStrategies :
       LET s == dbStrategies[id]
       IN  /\ s.wins = outcomeLog[id].won
           /\ s.losses = outcomeLog[id].lost
           /\ s.pnl = outcomeLog[id].pnl

\* C8: whenever the context error is 'DATABASE_TABLES_MISSING', AppContent
\* renders the setup-required overlay and not the layout with the banner.
C8_MissingTablesShowOverlay ==
  error = JSStr(TABLES_MISSING) => AppContent(error).view = "DatabaseSetupNeededOverlay"

(***************************************************************************)
(* Properties of the cache.                                                *)
(***************************************************************************)
GetStep == now' = now /\ cacheEvent'.op = "get"
SetStep == now' = now /\ cacheEvent'.op = "set"

\* the key of the step holds an entry with a usable timestamp
WellFormedAt(key) ==
  key \in CacheKeys(storage) /\ storage[key].kind = "entry" /\ storage[key].timestamp # 0

C3_ReadsDoNotExtendLife ==
  [][ (GetStep /\ cacheEvent'.key # EmptyKey /\ lastSet[cacheEvent'.key] > 0
         /\ now > lastSet[cacheEvent'.key] + DEFAULT_DURATION_MS)
        => cacheEvent'.ret = JSNull
    ]_vars

C3_Witness ==
  /\ cacheEvent.op = "get" /\ cacheEvent.key = 1 /\ cacheEvent.ret = JSNull
  /\ cacheEvent.found # JSNull /\ cacheEvent.found.kind = "entry"
  /\ cacheEvent.found.timestamp = lastSet[1]
  /\ cacheEvent.found.lastAccessed > lastSet[1]
  /\ lastSet[1] > 0 /\ now > lastSet[1] + DEFAULT_DURATION_MS

\* C4 as stated: a set that finds 40 or fewer items removes no existing item.
C4_NoEvictionUpTo40 ==
  [][ (SetStep /\ Cardinality(CacheKeys(storage)) <= 40)
        => CacheKeys(storage) \subseteq CacheKeys(storage')
    ]_vars

\* C4 amended: a set that finds fewer than 40 items removes no existing item
\* (the eviction pass runs only when 40 or more are present).
C4_NoEvictionBelow40 ==
  [][ (SetStep /\ Cardinality(CacheKeys(storage)) < 40)
        => (CacheKeys(storage) \subseteq CacheKeys(storage') /\ cacheEvent'.evicted = {})
    ]_vars

C4_Witness ==
  /\ cacheEvent.op = "set" /\ cacheEvent.cleanups = 1 /\ cacheEvent.evicted = {}
  /\ cacheEvent.key \in CacheKeys(storage)
  /\ Cardinality(CacheKeys(storage)) = 40

C24_AtMostThresholdEntries ==
  /\ Cardinality(CacheKeys(storage)) * 100 <= MAX_CACHE_SIZE * CLEANUP_THRESHOLD_PERCENT
  /\ Cardinality(CacheKeys(storage)) <= MAX_CACHE_SIZE

\* a set arriving at 40 entries: 8 were evicted and the new one stored
C24_Witness ==
  /\ cacheEvent.op = "set" /\ cacheEvent.key = 2
  /\ Cardinality(cacheEvent.evicted) = 8
  /\ 2 \in CacheKeys(storage)
  /\ Cardinality(CacheKeys(storage)) = 33

(***************************************************************************)
(* Properties of the error classification and of the fetch operations.     *)
(***************************************************************************)
Lower(c) == IF c \in DOMAIN UpperToLower THEN UpperToLower[c] ELSE c

\* needle occurs in msg when letter case is ignored
ContainsIgnoringCase(msg, needle) ==
  \E i \in 1..Len(msg) :
     /\ i + Len(needle) - 1 <= Len(msg)
     /\ \A j \in 1..Len(needle) : Lower(msg[i + j - 1]) = needle[j]

\* C9: handleSupabaseError gives the authentication message when the message
\* contains 'api key'; otherwise 'DATABASE_TABLES_MISSING' when it contains
\* both 'relation' and 'does not exist'; otherwise (no message included) the
\* generic message naming the context; letter case is ignored throughout.
C9_ClassifiedByPrecedence ==
  clsResult # JSNull =>
    LET msg == IF clsError.hasMessage THEN clsError.message ELSE <<>>
    IN  clsResult =
          JSStr(IF ContainsIgnoringCase(msg, NeedleApiKey) THEN AUTH_MESSAGE
                ELSE IF /\ ContainsIgnoringCase(msg, NeedleRelation)
                        /\ ContainsIgnoringCase(msg, NeedleDoesNotExist)
                     THEN TABLES_MISSING
                     ELSE GenericMessage(clsContext))

C9_Witness ==
  /\ clsResult = JSStr(AUTH_MESSAGE)
  /\ clsError.hasMessage
  /\ includes(clsError.message, <<"A", "P", "I", " ", "k", "e", "y">>)
  /\ includes(clsError.message, <<"R", "e", "l", "a", "t", "i", "o", "n">>)
  /\ includes(clsError.message, <<"N", "O", "T">>)

\* C10: a fetch operation rejects only after its AI request has been tried
\* MAX_RETRIES times.
C10_RejectsAfterRetries ==
  fetch.state = "rejected" => fetch.aiCalls = MAX_RETRIES

\* an entry that getCachedData does not take for expired is stored under key
UnexpiredAt(key) == WellFormedAt(key) /\ ~IsExpired(storage[key], now)

RetryEnded == retry.pc \in {"resolved", "rejected"}

\* C11: for maxRetries >= 1, withRetry calls operation at most maxRetries
\* times, resolves with the result of the first attempt that succeeds and
\* calls no more after it, and rejects, when all maxRetries attempts failed,
\* with the error of the last attempt.
C11_RetryOutcome ==
  /\ [](retry.maxRetries >= 1 =>
          /\ Len(retry.calls) <= retry.maxRetries
          /\ retry.pc = "resolved" => retry.result = AttemptValue(Len(retry.calls))
          /\ retry.pc = "rejected" =>
               /\ Len(retry.calls) = retry.maxRetries
               /\ retry.result = AttemptError(retry.maxRetries))
  /\ [][retry.pc = "resolved" => retry' = retry]_vars

C11_Witness ==
  /\ retry.pc = "rejected"
  /\ retry.maxRetries = 3
  /\ retry.result = AttemptError(3)

\* C12: the wait after failed attempt k and before attempt k+1
\* (1 <= k < maxRetries) is exactly delay * k; no wait comes before the first
\* attempt and none after the final failed attempt.
C12_LinearBackoff ==
  /\ \A k \in 1..Len(retry.waits) : k < retry.maxRetries /\ retry.waits[k] = retry.delay * k
  /\ \A k \in 1..Len(retry.calls) : retry.calls[k] = k - 1
  /\ retry.pc = "rejected" /\ retry.maxRetries >= 1
       => Len(retry.waits) = retry.maxRetries - 1

C12_Witness ==
  /\ retry.pc = "rejected"
  /\ retry.maxRetries = 3
  /\ retry.delay = 2
  /\ retry.waits = <<2, 4>>

(***************************************************************************)
(* Properties of parseJsonResponse.                                        *)
(***************************************************************************)
ParseDone == parseOutcome # Pending
InputIsString == parseInput.tag = "string"
InputTrimmed == trim(parseInput.val)

\* C14: parseJsonResponse never throws: every outcome is a return.
C14_NeverThrows == ParseDone => parseOutcome.kind = "return"

\* the sanitized text did not parse, and null came back
C14_Witness ==
  /\ ParseDone /\ InputIsString
  /\ JSONparse(sanitizeJsonString(extractJsonFromResponse(InputTrimmed))).threw
  /\ ~ShortCircuits(InputTrimmed, toLowerCase(InputTrimmed))
  /\ parseOutcome = Returned(JSNull)

\* C15: for well-formed JSON in a code fence, with or without prose around
\* it, parseJsonResponse returns the value the fenced JSON text stands for.
C15_FencedJsonParsed ==
  ParseDone /\ parseSample # NoSample => parseOutcome = Returned(FromJson(parseSample.value))

\* C16: an input string that contains a refusal keyword, in any letter case,
\* gives null.
C16_KeywordGivesNull ==
  ParseDone /\ InputIsString
    /\ (\E keyword \in conversationalKeywords : ContainsIgnoringCase(parseInput.val, keyword))
    => parseOutcome = Returned(JSNull)

StartsLikeJson(text) == text # <<>> /\ text[1] \in {"{", "["}

\* C16 as amended: an input string that, trimmed, starts with neither { nor [
\* and contains a refusal keyword in any letter case gives null.
C16_KeywordOutsideJsonGivesNull ==
  ParseDone /\ InputIsString /\ ~StartsLikeJson(InputTrimmed)
    /\ (\E keyword \in conversationalKeywords : ContainsIgnoringCase(parseInput.val, keyword))
    => parseOutcome = Returned(JSNull)

\* a keyword in front of JSON that would have parsed
C16_Witness ==
  /\ ParseDone /\ InputIsString /\ ~StartsLikeJson(InputTrimmed)
  /\ \E keyword \in conversationalKeywords : ContainsIgnoringCase(parseInput.val, keyword)
  /\ ~JSONparse(sanitizeJsonString(extractJsonFromResponse(InputTrimmed))).threw
  /\ parseOutcome = Returned(JSNull)

\* C17: an input string that is the text null, once trimmed and with letter
\* case ignored, gives null.
C17_NullLiteralGivesNull ==
  ParseDone /\ InputIsString
    /\ Len(InputTrimmed) = 4
    /\ (\A i \in 1..4 : Lower(InputTrimmed[i]) = NullText[i])
    => parseOutcome = Returned(JSNull)

C17_Witness ==
  /\ ParseDone
  /\ parseInput = JSStr(<<" ", "N", "U", "L", "L", "\n">>)
  /\ parseOutcome = Returned(JSNull)

(***************************************************************************)
(* Properties of the session identifier.                                   *)
(***************************************************************************)

\* every identifier returned since the last clearSession is the stored one
ReturnedIsStored == \A id \in sessionLog.returned : id = storedUserId

\* an identifier is generated only when no valid one is stored, and is persisted
GeneratedOnlyWhenNoneStored ==
  uuidCount' # uuidCount =>
    /\ NeedsNewId(storedUserId)
    /\ storedUserId' = Uuid(uuidCount')
    /\ sessionLog'.ret = storedUserId'

FallbackIsTemporary ==
  (sessionLog'.op = "get" /\ sessionLog'.threw /\ ~sessionLog.threw) =>
    /\ sessionLog'.ret = Uuid(uuidCount') /\ uuidCount' = uuidCount + 1
    /\ storedUserId' = storedUserId

RequestIsPending ==
  page.pc \in {"awaitStrategySets", "awaitFallback"} /\ fetch.state = "awaiting"

\* C13: a fetch operation completes only when the endpoint responds; while
\* the endpoint has not responded the operation stays pending and the page's
\* loading flag stays set, however long that takes: the time passed, compared
\* with REQUEST_TIMEOUT or not, changes neither.
C13_PendingUntilResponse ==
  /\ [](RequestIsPending => page.loading)
  /\ [][RequestIsPending =>
          /\ fetch'.state # "awaiting" => page'.responses = page.responses + 1
          /\ page'.responses = page.responses =>
               (fetch' = fetch /\ page'.loading /\ page'.pc = page.pc)]_vars

\* still pending, and shown as loading, after more than REQUEST_TIMEOUT
C13_Witness ==
  /\ RequestIsPending
  /\ page.loading
  /\ page.elapsed > REQUEST_TIMEOUT
  /\ page.responses = 0

LoadTipsUnderWay == page.pc \in {"awaitStrategySets", "awaitFallback"}
LoadTipsEnded == page.pc = "done"

\* C28: every loadTips invocation whose AI requests are all answered ends, and
\* when it has ended loading and isFetchingFallback are both false.
C28_LoadTipsEndsWithFlagsCleared ==
  /\ [](LoadTipsEnded => ~page.loading /\ ~page.isFetchingFallback)
  /\ LoadTipsUnderWay ~> LoadTipsEnded

\* an invocation ended after its fallback fetch rejected
C28_Witness ==
  /\ LoadTipsEnded
  /\ fetch.state = "rejected" /\ fetch.key = FootballPageKey
  /\ ~page.loading /\ ~page.isFetchingFallback /\ page.error = JSNull

(***************************************************************************)
(* Properties of the cache keys.                                           *)
(***************************************************************************)
\* C19: a non-forced fetch never returns data that was cached by a different
\* operation or for a different argument: what a fetch finds in the cache is
\* the reply to the same operation with the same argument.
C19_CacheHitIsOwnData ==
  keyFetch.hit => keyFetch.data = keyFetch.request

(***************************************************************************)
(* Properties of a tracked accumulator and its stored row.                 *)
(***************************************************************************)
\* what the pages read of a tracked accumulator
AccumulatorAsRead(acc) ==
  [id |-> acc.id, games |-> acc.games, virtualStake |-> acc.virtualStake,
   strategy_id |-> StrategyIdOf(acc)]

\* C20: after a successful addAccumulator the tracked accumulator in local
\* state is the record a reload would build from the stored row, its
\* strategy_id included.
C20_LocalIsReloadedRecord ==
  (lastEvent.op = "addAccumulator" /\ lastEvent.ok) =>
    \A k \in 1..Len(trackedAccumulators) :
      LET acc == trackedAccumulators[k]
      IN  acc.id \in DOMAIN dbAccumulators =>
            AccumulatorAsRead(acc) = AccumulatorAsRead(AccumulatorFromRow(dbAccumulators[acc.id]))

\* C22: once every add and remove request has completed (all of them
\* successfully), an item is in the local tracked list exactly when a row for
\* it is in the store.
C22_LocalMatchesStore ==
  Quiescent =>
    /\ IdsOf(trackedPredictions) = DOMAIN dbPredictions
    /\ IdsOf(trackedAccumulators) = DOMAIN dbAccumulators

\* C25: when clearAllTrackedBets handles the answers of its two deletes, it
\* empties both tracked lists if both succeeded, and otherwise leaves both
\* lists as they were and sets the error.
C25_ClearIsAllOrNothing ==
  [][\A i \in Slots :
       (requests[i] # NoReq /\ requests[i].phase = "doneBoth" /\ requests'[i] = NoReq) =>
         IF requests[i].predError = JSNull /\ requests[i].accError = JSNull
         THEN trackedPredictions' = <<>> /\ trackedAccumulators' = <<>>
         ELSE /\ trackedPredictions' = trackedPredictions
              /\ trackedAccumulators' = trackedAccumulators
              /\ error' # JSNull]_vars

\* the predictions' delete succeeded, the accumulators' failed: both lists kept
C25_Witness ==
  /\ lastEvent = [op |-> "clearAllTrackedBets", ok |-> FALSE, replaced |-> FALSE]
  /\ dbPredictions = EmptyTable /\ dbAccumulators # EmptyTable
  /\ trackedPredictions # <<>> /\ trackedAccumulators # <<>>
  /\ error # JSNull

(***************************************************************************)
(* Properties of the Dashboard.                                            *)
(***************************************************************************)
\* C21: a settled tracked accumulator linked to a strategy is counted into
\* that strategy's wins and losses at most once: with one such accumulator,
\* no stored strategy has more than one win or loss.
C21_CountedAtMostOnce ==
  \A id \in DOMAIN dbStrategies :
    dbStrategies[id].wins + dbStrategies[id].losses <= Cardinality(IdsOf(trackedAccumulators))

(***************************************************************************)
(* Properties of the scores cache.                                         *)
(***************************************************************************)
\* C23: a score that fetchSingleScore wrote into 'scoresCache' while a
\* fetchScoresForPredictions call was awaiting the AI is in 'scoresCache'
\* once that batch call has completed.
C23_SingleScoreSurvivesBatch ==
  [][(batch.pc = "awaiting" /\ batch'.pc = "done") =>
       \A id \in batch.written : id \in DOMAIN scoresCache']_vars

(***************************************************************************)
(* Properties of useAsync.                                                 *)
(***************************************************************************)
\* C27: while the component is mounted the hook's state is that of the call
\* started last: loading until that call settles, and then its data or error.
C27_StateOfLatestCall ==
  (mountedRef /\ executions # <<>>) =>
     LET n == Len(executions)
     IN  CASE executions[n] = "pending"  -> asyncState.loading
           [] executions[n] = "resolved" ->
                ~asyncState.loading /\ asyncState.data = OutcomeOf(n) /\ asyncState.error = JSNull
           [] executions[n] = "rejected" ->
                ~asyncState.loading /\ asyncState.error = OutcomeOf(n)

(***************************************************************************)
(* Properties of getMatchStatus.                                           *)
(***************************************************************************)
\* C29: for a valid match date d a call of getMatchStatus returns Finished
\* exactly when its time is later than d + 2.5 hours, Live exactly when
\* d <= now <= d + 2.5 hours and Upcoming exactly when now < d, also when the
\* call is answered from the result cache.
C29_StatusOfCallTime ==
  (statusCall.made /\ statusCall.arg.valid) =>
     LET d == statusCall.arg.time
         at == statusCall.at
         status == statusCall.result.status
     IN  /\ status = "Finished" <=> at > d + typicalMatchDurationMs
         /\ status = "Live" <=> (d <= at /\ at <= d + typicalMatchDurationMs)
         /\ status = "Upcoming" <=> at < d

(***************************************************************************)
(* Properties of the AI tip builder.                                       *)
(***************************************************************************)
\* C30: whenever aiSelectsMarkets is false, the list of selected bet types is
\* not empty.
C30_MarketsChosenBySomeone == ~aiSelectsMarkets => selectedBetTypes # <<>>

\* a state with one selected bet type was loaded after the AI had been given
\* the markets and that state, with no bet type, had been saved
C30_Witness ==
  /\ builderOp = "loadState"
  /\ ~aiSelectsMarkets /\ Len(selectedBetTypes) = 1
  /\ [selectedBetTypes |-> <<>>, aiSelectsMarkets |-> TRUE] \in savedStates
  /\ [selectedBetTypes |-> selectedBetTypes, aiSelectsMarkets |-> FALSE] \in savedStates
====
